---- MODULE Spec2Model ----
(***************************************************************************)
(* Model of the execution runtime of superglue.                            *)
(*                                                                         *)
(* Part 1: callEndpoint (the pagination driver of the step executor).      *)
(* One run of callEndpoint is modelled: Init is the state of its locals    *)
(* right before the while loop, LoopIteration is one pass through the loop *)
(* body (request, response checks, dataPath, accumulation, cursor advance) *)
(* and Return is the code after the loop.  The HTTP caller (callAxios) is  *)
(* the environment: it answers every request with a response chosen from   *)
(* a small set of bodies, or with an endless stream of fresh pages.        *)
(***************************************************************************)
EXTENDS Integers, Sequences, FiniteSets, TLC

(***************************************************************************)
(* Bounds of the model.                                                    *)
(***************************************************************************)
\* number of requests the scripted server answers with an arbitrary response
\* before it only serves empty pages
MaxScript == 3
\* largest retry budget (options.retries) of a call whose outcomes are arbitrary
MaxRetries == 3

(***************************************************************************)
(* JSON values.  Every value is a record with a `kind`; an object carries  *)
(* its members in `fields`, an absent member is absent from the domain.    *)
(* A string is its text preceded by `ws` white-space characters.           *)
(***************************************************************************)
undefined == [kind |-> "undefined"]
null == [kind |-> "null"]
JStr(s) == [kind |-> "string", ws |-> 0, text |-> s]
JPad(n, s) == [kind |-> "string", ws |-> n, text |-> s]
JNum(n) == [kind |-> "number", n |-> n]
JArr(items) == [kind |-> "array", items |-> items]
JObj(f) == [kind |-> "object", fields |-> f]
NoFields == [n \in {} |-> undefined]

\* v[part] / v?.[part] of JavaScript (array indices and `length` are not used
\* as path segments in this model)
Get(v, part) ==
  IF v.kind = "object" /\ part \in DOMAIN v.fields THEN v.fields[part] ELSE undefined

\* JavaScript truthiness
Truthy(v) ==
  CASE v.kind = "undefined" -> FALSE
    [] v.kind = "null" -> FALSE
    [] v.kind = "string" -> v.ws > 0 \/ v.text # ""
    [] v.kind = "number" -> v.n # 0
    [] OTHER -> TRUE

IsArray(v) == v.kind = "array"

\* String(v) for the values that reach replaceVariables
JSString(v) ==
  CASE v.kind = "undefined" -> "undefined"
    [] v.kind = "null" -> "null"
    [] v.kind = "string" -> v.text
    [] v.kind = "number" -> ToString(v.n)
    [] v.kind = "array" -> "[array]"
    [] OTHER -> "[object Object]"

\* JSON.stringify is injective on the values of this model (members keep
\* their order), so the hash of a value is the value under a wrapper
JSONstringify(v) == [json |-> v]

\* parseInt on the pageSize strings of the model
ParseInt(s) ==
  CASE s = "0" -> 0
    [] s = "1" -> 1
    [] s = "2" -> 2
    [] s = "50" -> 50

(***************************************************************************)
(* server_defaults.MAX_PAGINATION_REQUESTS and the fixed ceiling of a run  *)
(* without stopCondition.                                                  *)
(***************************************************************************)
MAX_PAGINATION_REQUESTS == 1000
NoStopConditionMaxRequests == 500

(***************************************************************************)
(* The ApiConfig of the run.  Optional members (pagination, pageSize,      *)
(* stopCondition, cursorPath, dataPath) are absent from the record when    *)
(* unset.  A header / query value is a template: a literal or one          *)
(* placeholder.                                                            *)
(***************************************************************************)
Lit(s) == [lit |-> s]
Var(name) == [var |-> name]

\* A header value is a string of words separated by single spaces; its
\* template is the sequence of its words.  The words of a value of several
\* words are not empty.
ContentTypeJson == "Content-Type" :> <<Lit("application/json")>>

\* the endpoint of the callEndpoint tests
testConfig ==
  [method |-> "GET", urlHost |-> Lit("https://api.example.com"),
   headers |-> ContentTypeJson,
   queryParams |-> [offset |-> Var("offset"), limit |-> Var("limit"), page |-> Var("page"),
                    cursor |-> Var("cursor"), format |-> Lit("json"),
                    since |-> Var("since")]]

\* Postgres connection strings
PostgresUrl == "postgres://db.example.com:5432/app"
PostgresqlUrl == "postgresql://db.example.com:5432/app"

\* a record with the member `name` added when `present`
With(rec, name, val, present) == IF present THEN rec @@ (name :> val) ELSE rec

Pagination(t, ps, sc, cp) ==
  With(With(With([type |-> t], "pageSize", ps, ps # ""),
            "stopCondition", sc, sc # ""),
       "cursorPath", cp, cp # <<>>)

\* endpoints without stopCondition: every pagination type, page size and
\* data path; endpoints with one: the three paginating types at page size 2
Paginations ==
  { Pagination(q[1], q[2], q[3], q[4]) :
      q \in { r \in {"OFFSET_BASED", "PAGE_BASED", "CURSOR_BASED", "DISABLED"}
                      \X {"0", "1", "2", ""}
                      \X {"$count(response.data) = 0", ""}
                      \X {<<"meta", "next_cursor">>, <<>>} :
                /\ r[4] = <<>> \/ r[1] = "CURSOR_BASED"
                /\ r[3] # "" => /\ r[1] # "DISABLED" /\ r[2] = "2"
                                /\ (r[1] = "CURSOR_BASED" => r[4] # <<>>) } }

Endpoints ==
  { With(With(testConfig,
              "pagination", pg, pg # [type |-> "NONE"]),
         "dataPath", dp, dp # <<>>) :
      pg \in Paginations \cup {[type |-> "NONE"]}, dp \in ({<<"data">>}) \cup {<<>>} }

NoVariables == [n \in {} |-> undefined]

(***************************************************************************)
(* The HTTP caller (callAxios) as environment.  The scripted server picks  *)
(* any of ScriptResponses for the first MaxScript requests and serves      *)
(* empty pages afterwards; the fresh servers answer request k with a page  *)
(* holding one item never served before.                                   *)
(***************************************************************************)
Response(st, d) == [status |-> st, data |-> d]

Page12 == JArr(<<JNum(1), JNum(2)>>)
Page3 == JArr(<<JNum(3)>>)
PageEmpty == JArr(<<>>)
ObjPage(pg, cur) == JObj([data |-> pg, meta |-> JObj([next_cursor |-> cur])])

JsonBodies ==
  { PageEmpty, Page12, Page3,
    ObjPage(Page12, JStr("c1")), ObjPage(Page3, null),
    JObj([result |-> JStr("success")]),
    JObj([error |-> JStr("Bad Request")]),
    JObj([error |-> null, errors |-> PageEmpty, data |-> Page12,
          meta |-> JObj([next_cursor |-> JStr("c2")])]),
    JObj([errors |-> JArr(<<JObj([message |-> JStr("Field not found")])>>), data |-> null]) }

ScriptResponses ==
  { Response(200, b) :
      b \in JsonBodies
             \cup { JPad(0, "<!DOCTYPE html><html><body>Error page</body></html>"),
                    JPad(2, "<HTML><body>Error page</body></HTML>"),
                    JPad(100, "<html>") } }
  \cup { Response(204, null), Response(206, Page12), Response(400, null),
         Response(404, JPad(0, "<!DOCTYPE html><html><body>Error page</body></html>")),
         Response(429, JObj([result |-> JStr("success")])) }

FreshPage(k) == JArr(<<JNum(100 + k)>>)

\* the responses callAxios may return to request number k + 1
ServerResponses(srv, k) ==
  CASE srv = "script" ->
         IF k < MaxScript THEN ScriptResponses ELSE {Response(200, PageEmpty)}
    [] srv = "freshArray" -> {Response(200, FreshPage(k))}
    [] srv = "freshObject" -> {Response(200, ObjPage(FreshPage(k), JStr("next")))}

(***************************************************************************)
(* State of one callEndpoint run.                                          *)
(***************************************************************************)
VARIABLES
  endpoint, payload, credentials,    \* the arguments of the call
  server,                            \* how callAxios answers: "script" | "freshArray" | "freshObject"
  allResults, page, offset, cursor, hasMore, loopCounter,
  seenResponseHashes, previousResponseHash, firstResponseHash, hasValidData,
  lastResponse,
  pc,                                \* "loop" | "done" (returned after the loop) |
                                     \* "delegated" (returned the Postgres answer) | "threw"
  result,                            \* the value returned or the error thrown
  requests,                          \* the requests handed to callAxios, in order
  responses,                         \* the responses callAxios returned, in order
  postgresCalls                      \* the calls of callPostgres, in order: the endpoint
                                     \* handed over and what the call answered

\* State of one executeApiCall run (Part 2); endpoint, payload and credentials
\* are its arguments as well.
VARIABLES
  options,                           \* the RequestOptions of the call
  world,                             \* how the step and the LLM answer: "any" | "down"
  retryCount, lastError, messages, success, response,
  execPc,                            \* "idle" | "attempt" | "after" | "returned" | "threw"
  execResult,                        \* the value returned or the error thrown
  caught,                            \* the error of the last pass through the catch block
  calls                              \* the calls of callEndpoint, generateApiConfig and
                                     \* evaluateResponse, in order

\* State of the datastore (Part 3).
VARIABLES
  configurations,                    \* the rows of table configurations, by (id, type, org_id)
  runs,                              \* the rows of table runs, by (id, org_id)
  lastCall,                          \* the last call of the datastore, with what it returned
  integrations,                      \* the rows of table integrations, by (id, org_id)
  runLog,                            \* the lines of the run log of the file backend
  checkedOut,                        \* the connections of the pool that are checked out
  initPc,                            \* initializeTables: "connecting" | "creating" |
                                     \* "done" | "failed"
  statements,                        \* the statements initializeTables has executed
  operation,                         \* the operation in progress and its queries done
  completed,                         \* the operations that have returned or thrown
  written                            \* by (id, type, org_id): the entity handed to the last
                                     \* upsert or createRun that no delete has followed;
                                     \* runs have type "run", integrations "integration"

driverVars == <<server, allResults, page, offset, cursor,
                hasMore, loopCounter, seenResponseHashes, previousResponseHash,
                firstResponseHash, hasValidData, lastResponse, pc, result, requests,
                responses, postgresCalls>>

execVars == <<options, world, retryCount, lastError, messages, success, response,
              execPc, execResult, caught, calls>>

poolVars == <<checkedOut, initPc, statements, operation, completed>>

storeVars == <<configurations, runs, integrations, runLog, poolVars, lastCall, written>>

vars == <<endpoint, payload, credentials, driverVars, execVars, storeVars>>

args == <<endpoint, payload, credentials, server>>

NoHash == [json |-> undefined]
NoResult == [type |-> "none"]

\* endpoint.pagination?.type
paginationType(e) == IF "pagination" \in DOMAIN e THEN e.pagination.type ELSE "NONE"

\* endpoint.pagination?.pageSize || "50"
pageSizeOrDefault(e) ==
  IF "pagination" \in DOMAIN e /\ "pageSize" \in DOMAIN e.pagination
     /\ e.pagination.pageSize # ""
  THEN e.pagination.pageSize ELSE "50"

\* endpoint.pagination && endpoint.pagination.stopCondition
hasStopCondition(e) ==
  "pagination" \in DOMAIN e /\ "stopCondition" \in DOMAIN e.pagination
  /\ e.pagination.stopCondition # ""

\* variant: the ceiling of the stopCondition case used for every endpoint
maxRequestsIgnoringStopCondition(e) == MAX_PAGINATION_REQUESTS

maxRequests(e) ==
  IF hasStopCondition(e) THEN MAX_PAGINATION_REQUESTS ELSE NoStopConditionMaxRequests

\* variant: the configured cursorPath is ignored
cursorPartsDefaultOnly(e) == <<"next_cursor">>

\* (endpoint.pagination?.cursorPath || 'next_cursor').split('.')
cursorParts(e) ==
  IF "pagination" \in DOMAIN e /\ "cursorPath" \in DOMAIN e.pagination
  THEN e.pagination.cursorPath ELSE <<"next_cursor">>

(***************************************************************************)
(* Building the request of one iteration.                                  *)
(***************************************************************************)
\* { ...a, ...b }
Spread(a, b) == [n \in DOMAIN a \cup DOMAIN b |-> IF n \in DOMAIN b THEN b[n] ELSE a[n]]

allVariables(pl, cr) == Spread(pl, cr)

paginationVars(e, pg, off, cur) ==
  [page |-> JNum(pg), offset |-> JNum(off), cursor |-> cur,
   limit |-> JStr(pageSizeOrDefault(e)), pageSize |-> JStr(pageSizeOrDefault(e))]

requestVars(e, pg, off, cur, pl, cr) ==
  Spread(paginationVars(e, pg, off, cur), allVariables(pl, cr))

\* a template with its placeholder resolved from the scope; a missing
\* variable yields "undefined"
replaceVariables(template, scope) ==
  IF "var" \in DOMAIN template
  THEN IF template.var \in DOMAIN scope THEN JSString(scope[template.var]) ELSE "undefined"
  ELSE template.lit

\* replaceVariables over the words of a header value
replaceVariablesInWords(words, scope) ==
  [i \in DOMAIN words |-> replaceVariables(words[i], scope)]

\* endpoint.headers || {}
headersOrEmpty(e) == IF "headers" \in DOMAIN e THEN e.headers ELSE <<>>

\* variant: a header that resolves to "undefined" or "null" is kept
headersWithReplacedVarsKeepingUndefined(e, scope) ==
  LET replaced == [k \in DOMAIN headersOrEmpty(e) |->
                     replaceVariablesInWords(headersOrEmpty(e)[k], scope)]
      kept == {k \in DOMAIN replaced : replaced[k] # <<"">>}
  IN [k \in kept |-> replaced[k]]

headersWithReplacedVars(e, scope) ==
  LET replaced == [k \in DOMAIN headersOrEmpty(e) |->
                     replaceVariablesInWords(headersOrEmpty(e)[k], scope)]
      kept == {k \in DOMAIN replaced :
                 replaced[k] # <<"">> /\ replaced[k] # <<"undefined">>
                 /\ replaced[k] # <<"null">>}
  IN [k \in kept |-> replaced[k]]

\* key.toLowerCase() on the header names of the model
keyToLowerCase(key) ==
  CASE key = "Authorization" -> "authorization"
    [] key = "Content-Type" -> "content-type"
    [] key = "X-Trace" -> "x-trace"
    [] key = "X-Cursor" -> "x-cursor"
    [] key = "X-Empty" -> "x-empty"
    [] key = "X-Api-Key" -> "x-api-key"
    [] key = "X-Forwarded-Authorization" -> "x-forwarded-authorization"
    [] OTHER -> key

\* value.replace(/^(Basic|Bearer)\s+(Basic|Bearer)\s+/, '$1 $2'): the match
\* ends with the white space before the third word, the replacement does not
replaceDoubledScheme(words) ==
  IF Len(words) >= 3 /\ words[1] \in {"Basic", "Bearer"}
     /\ words[2] \in {"Basic", "Bearer"}
  THEN <<words[1], words[2] \o words[3]>> \o SubSeq(words, 4, Len(words))
  ELSE words

\* /^[A-Za-z0-9+/=]+$/.test(credentials) for the words after 'Basic ': one
\* word, and none of the words of the model that hold a character outside
\* the alphabet
seemsEncoded(basicCredentials) ==
  /\ Len(basicCredentials) = 1
  /\ basicCredentials[1] # ""
  /\ basicCredentials[1] \notin {"user:pass", "Basicuser:pass", "Beareruser:pass"}

\* Buffer.from(credentials).toString('base64')
toBase64(basicCredentials) ==
  CASE basicCredentials = <<"user:pass">> -> "dXNlcjpwYXNz"
    [] basicCredentials = <<"Basicuser:pass">> -> "QmFzaWN1c2VyOnBhc3M="
    [] basicCredentials = <<"Basic", "user:pass">> -> "QmFzaWMgdXNlcjpwYXNz"

convertBasicAuthToBase64(headerValue) ==
  LET basicCredentials == Tail(headerValue)
  IN IF ~seemsEncoded(basicCredentials) THEN <<"Basic", toBase64(basicCredentials)>>
     ELSE headerValue

processedHeaders(e, scope) ==
  LET replaced == headersWithReplacedVars(e, scope)
      deduped(key) == IF keyToLowerCase(key) = "authorization"
                      THEN replaceDoubledScheme(replaced[key]) ELSE replaced[key]
      \* processedValue.startsWith('Basic ')
      startsWithBasic(words) == Len(words) >= 2 /\ words[1] = "Basic"
  IN [key \in DOMAIN replaced |->
        IF keyToLowerCase(key) = "authorization" /\ startsWithBasic(deduped(key))
        THEN convertBasicAuthToBase64(deduped(key)) ELSE deduped(key)]

processedQueryParams(e, scope) ==
  LET replaced == [k \in DOMAIN e.queryParams |-> replaceVariables(e.queryParams[k], scope)]
      kept == {k \in DOMAIN replaced :
                 replaced[k] # "" /\ replaced[k] # "undefined" /\ replaced[k] # "null"}
  IN [k \in kept |-> replaced[k]]

processedUrlHost(e, scope) == replaceVariables(e.urlHost, scope)

\* host.startsWith(prefix) on the hosts of the model
startsWith(host, prefix) ==
  \/ host = PostgresUrl /\ prefix = "postgres://"
  \/ host = PostgresqlUrl /\ prefix = "postgresql://"

\* variant: only the postgres:// scheme is recognised
isPostgresHostShortSchemeOnly(host) == startsWith(host, "postgres://")

isPostgresHost(host) ==
  startsWith(host, "postgres://") \/ startsWith(host, "postgresql://")

axiosConfig(e, pg, off, cur, pl, cr) ==
  [method |-> e.method,
   headers |-> processedHeaders(e, requestVars(e, pg, off, cur, pl, cr)),
   params |-> processedQueryParams(e, requestVars(e, pg, off, cur, pl, cr)),
   paginationVars |-> paginationVars(e, pg, off, cur)]

\* the endpoint handed to callPostgres
postgresEndpoint(e, pg, off, cur, pl, cr) ==
  [e EXCEPT !.urlHost = Lit(processedUrlHost(e, requestVars(e, pg, off, cur, pl, cr)))]

(***************************************************************************)
(* Checking and unpacking the response.                                    *)
(***************************************************************************)
AcceptedStatuses == {200, 201, 202, 203, 204, 205}

\* variant: the errors array of a GraphQL answer is not looked at
isErrorResponseWithoutErrorsArray(resp) ==
  \/ resp.status \notin AcceptedStatuses
  \/ Truthy(Get(resp.data, "error"))

isErrorResponse(resp) ==
  \/ resp.status \notin AcceptedStatuses
  \/ Truthy(Get(resp.data, "error"))
  \/ (IsArray(Get(resp.data, "errors")) /\ Len(Get(resp.data, "errors").items) > 0)

\* the texts of the model are shorter than 100 - ws characters unless
\* ws >= 100, where slice(0, 100) keeps white space only
slice100(v) == IF v.ws >= 100 THEN JPad(100, "") ELSE v
trim(v) == JPad(0, v.text)
\* variant: the comparison is case-sensitive
toLowerCaseOmitted(v) == v
toLowerCase(v) ==
  [v EXCEPT !.text =
     CASE v.text = "<!DOCTYPE html><html><body>Error page</body></html>"
            -> "<!doctype html><html><body>error page</body></html>"
       [] v.text = "<HTML><body>Error page</body></HTML>"
            -> "<html><body>error page</body></html>"
       [] OTHER -> v.text]
startsWithHtml(v) ==
  v.text \in {"<!doctype html><html><body>error page</body></html>",
              "<html><body>error page</body></html>", "<html>"}

isHtmlResponse(resp) ==
  /\ resp.data.kind = "string"
  /\ startsWithHtml(toLowerCase(trim(slice100(resp.data))))

\* parseFile(Buffer.from(text), FileType.AUTO): the parsed document
parseFile(v) == JObj([parsed |-> JStr(v.text)])

\* the walk over endpoint.dataPath.split('.'); reading a member of null or
\* undefined is a TypeError
RECURSIVE dataPathThrows(_, _)
dataPathThrows(v, parts) ==
  IF parts = <<>> THEN FALSE
  ELSE IF v.kind \in {"null", "undefined"} THEN TRUE
  ELSE IF ~Truthy(Get(v, Head(parts))) /\ Head(parts) # "$" THEN FALSE
  ELSE dataPathThrows(IF Truthy(Get(v, Head(parts))) THEN Get(v, Head(parts)) ELSE v,
                      Tail(parts))

RECURSIVE applyDataPath(_, _)
applyDataPath(v, parts) ==
  IF parts = <<>> THEN v
  ELSE IF ~Truthy(Get(v, Head(parts))) /\ Head(parts) # "$" THEN v
  ELSE applyDataPath(IF Truthy(Get(v, Head(parts))) THEN Get(v, Head(parts)) ELSE v,
                     Tail(parts))

dataPathOf(e) == IF "dataPath" \in DOMAIN e THEN e.dataPath ELSE <<>>

parsedData(resp) ==
  IF Truthy(resp.data) /\ resp.data.kind = "string" THEN parseFile(resp.data) ELSE resp.data

RECURSIVE nextCursorAt(_, _)
nextCursorAt(v, parts) ==
  IF parts = <<>> THEN v ELSE nextCursorAt(Get(v, Head(parts)), Tail(parts))

\* variant: an array counts as data even when it is empty
hasDataInAnyArray(d) ==
  IF IsArray(d) THEN TRUE
  ELSE Truthy(d) /\ d.kind = "object" /\ DOMAIN d.fields # {}

\* Array.isArray(d) ? d.length > 0 : d && Object.keys(d).length > 0
hasData(d) ==
  IF IsArray(d) THEN Len(d.items) > 0
  ELSE Truthy(d) /\ d.kind = "object" /\ DOMAIN d.fields # {}

ApiCallError(msg, st) ==
  [type |-> "error", name |-> "ApiCallError", message |-> msg, statusCode |-> st]
Error(msg) == [type |-> "error", name |-> "Error", message |-> msg]
TypeError(msg) == [type |-> "error", name |-> "TypeError", message |-> msg]

\* the calls of the model: any endpoint against the scripted server (a
\* payload or credentials only where there is no stopCondition), and the two
\* endless servers against one endpoint that keeps paginating on them
PaginationCalls ==
  { c \in [endpoint : Endpoints, payload : {NoVariables, [offset |-> JStr("9"), limit |-> JStr("3")]},
           credentials : {NoVariables, [limit |-> JStr("7")]},
           server : {"script", "freshArray", "freshObject"}] :
      \/ /\ c.server = "script"
         /\ (c.payload = NoVariables) = (c.credentials = NoVariables)
         /\ hasStopCondition(c.endpoint) => c.payload = NoVariables
      \/ /\ c.server = "freshArray"
         /\ c.payload = NoVariables /\ c.credentials = NoVariables
         /\ c.endpoint = testConfig @@
                          [pagination |-> [type |-> "OFFSET_BASED", pageSize |-> "1"]]
      \/ /\ c.server = "freshObject"
         /\ c.payload = NoVariables /\ c.credentials = NoVariables
         /\ c.endpoint = testConfig @@
                          [dataPath |-> <<"data">>,
                           pagination |-> [type |-> "CURSOR_BASED", pageSize |-> "2",
                                           stopCondition |-> "$count(response.data) = 0",
                                           cursorPath |-> <<"meta", "next_cursor">>]] }

\* calls of an endpoint without pagination that sends headers: bearer and
\* basic authorization, doubled scheme prefixes, and values that resolve to
\* "", "undefined" and "null"
HeaderCalls ==
  { [endpoint |-> [testConfig EXCEPT !.headers = h], payload |-> NoVariables,
     credentials |-> cr, server |-> "script"] :
      h \in { ContentTypeJson @@ ("Authorization" :> <<Lit("Bearer"), Var("token")>>)
                @@ ("X-Trace" :> <<Var("trace")>>) @@ ("X-Cursor" :> <<Var("cursor")>>)
                @@ ("X-Empty" :> <<Lit("")>>) @@ ("X-Api-Key" :> <<Var("token")>>),
              ContentTypeJson @@ ("authorization" :> <<Lit("Basic"), Var("login")>>),
              "Authorization" :> <<Lit("Bearer"), Lit("Bearer"), Var("token")>>,
              "Authorization" :> <<Lit("Basic"), Lit("Basic"), Var("login")>>,
              "Authorization" :> <<Lit("Basic"), Lit("Bearer"), Var("token")>>,
              "X-Forwarded-Authorization"
                :> <<Lit("Bearer"), Lit("Bearer"), Var("token")>> },
      cr \in { [token |-> JStr("abc"), login |-> JStr("user:pass")],
               [token |-> JStr("abc"), login |-> JStr("dXNlcjpwYXNz")] } }

\* calls of an endpoint whose host may be a Postgres connection string,
\* literal or taken from a credential, with and without pagination
HostCalls ==
  { [endpoint |-> With([testConfig EXCEPT !.urlHost = h], "pagination",
                       [type |-> "PAGE_BASED", pageSize |-> "1"], paginated),
     payload |-> NoVariables, credentials |-> cr, server |-> "script"] :
      h \in { Lit(PostgresUrl), Lit(PostgresqlUrl), Var("dbUrl"),
              Lit("https://postgres.example.com") },
      cr \in {NoFields, [dbUrl |-> JStr(PostgresUrl)]}, paginated \in BOOLEAN }

\* the locals of callEndpoint right before its loop
DriverStart ==
  /\ allResults = <<>>
  /\ page = 1
  /\ offset = 0
  /\ cursor = null
  /\ hasMore = TRUE
  /\ loopCounter = 0
  /\ seenResponseHashes = {}
  /\ previousResponseHash = NoHash
  /\ firstResponseHash = NoHash
  /\ hasValidData = FALSE
  /\ lastResponse = [status |-> 0, data |-> undefined]
  /\ pc = "loop"
  /\ result = NoResult
  /\ requests = <<>>
  /\ responses = <<>>
  /\ postgresCalls = <<>>

\* no executeApiCall is running
ExecIdle ==
  /\ options = NoFields
  /\ world = "any"
  /\ retryCount = 0
  /\ lastError = null
  /\ caught = null
  /\ messages = <<>>
  /\ success = FALSE
  /\ response = null
  /\ execPc = "idle"
  /\ execResult = NoResult
  /\ calls = <<>>

\* a table without rows
NoRows == [key \in {} |-> null]

\* the datastore right after initializeTables, before any call
StoreIdle ==
  /\ configurations = NoRows
  /\ runs = NoRows
  /\ integrations = NoRows
  /\ runLog = <<>>
  /\ checkedOut = 0
  /\ initPc = "done"
  /\ statements = 9
  /\ operation = [name |-> "none"]
  /\ completed = 0
  /\ lastCall = [op |-> "none"]
  /\ written = NoRows

Init ==
  /\ \E c \in (PaginationCalls \cup HeaderCalls \cup HostCalls) :
       /\ endpoint = c.endpoint
       /\ payload = c.payload
       /\ credentials = c.credentials
       /\ server = c.server
  /\ DriverStart
  /\ ExecIdle
  /\ StoreIdle

(***************************************************************************)
(* One pass through the body of the while loop.                            *)
(***************************************************************************)
\* a throw leaves the loop: the locals keep their values, the error is the
\* outcome of the call
Throw(err) ==
  /\ pc' = "threw"
  /\ result' = err
  /\ UNCHANGED <<allResults, page, offset, cursor, hasMore, loopCounter,
                 seenResponseHashes, previousResponseHash, firstResponseHash,
                 hasValidData>>

\* variant: the offset advances by one instead of by the page size
AdvanceOffsetByOne(resp, more) ==
  LET type == paginationType(endpoint)
      nextCursor == nextCursorAt(resp.data, cursorParts(endpoint))
  IN /\ page' = IF type = "PAGE_BASED" THEN page + 1 ELSE page
     /\ offset' = IF type = "OFFSET_BASED" THEN offset + 1 ELSE offset
     /\ cursor' = IF type = "CURSOR_BASED" THEN nextCursor ELSE cursor
     /\ hasMore' = IF type = "CURSOR_BASED" /\ ~Truthy(nextCursor) THEN FALSE ELSE more
     /\ loopCounter' = loopCounter + 1
     /\ UNCHANGED <<pc, result>>

\* the end of the loop body: the cursor advance by pagination type and
\* loopCounter++; `more` is hasMore as the body left it
Advance(resp, more) ==
  LET type == paginationType(endpoint)
      nextCursor == nextCursorAt(resp.data, cursorParts(endpoint))
  IN /\ page' = IF type = "PAGE_BASED" THEN page + 1 ELSE page
     /\ offset' = IF type = "OFFSET_BASED"
                  THEN offset + ParseInt(pageSizeOrDefault(endpoint)) ELSE offset
     /\ cursor' = IF type = "CURSOR_BASED" THEN nextCursor ELSE cursor
     /\ hasMore' = IF type = "CURSOR_BASED" /\ ~Truthy(nextCursor) THEN FALSE ELSE more
     /\ loopCounter' = loopCounter + 1
     /\ UNCHANGED <<pc, result>>

\* variant: the stop condition is evaluated before the first two responses
\* are compared, and a verdict to stop skips the comparison
WithStopConditionEvaluatedFirst(resp, responseData, stopEval) ==
  LET currentResponseHash == JSONstringify(responseData)
      currentHasData == hasData(responseData)
      firstHash == IF loopCounter = 0 THEN currentResponseHash ELSE firstResponseHash
      validData == IF loopCounter = 0 THEN currentHasData ELSE hasValidData
      repeated == loopCounter > 1 /\ currentResponseHash = previousResponseHash
  IN IF ~repeated /\ "error" \in DOMAIN stopEval
     THEN Throw(Error("Pagination stop condition error"))
     ELSE IF /\ loopCounter = 1 /\ currentResponseHash = firstHash /\ validData
             /\ currentHasData /\ ~stopEval.shouldStop
     THEN Throw(Error("Pagination configuration error: pagination parameters are not being applied correctly"))
     ELSE IF loopCounter = 1 /\ ~validData /\ ~currentHasData /\ ~stopEval.shouldStop
     THEN Throw(Error("Stop condition error"))
     ELSE /\ firstResponseHash' = firstHash
          /\ hasValidData' = validData
          /\ previousResponseHash' = currentResponseHash
          /\ allResults' = IF IsArray(responseData) THEN allResults \o responseData.items
                           ELSE IF Truthy(responseData) THEN Append(allResults, responseData)
                           ELSE allResults
          /\ UNCHANGED seenResponseHashes
          /\ Advance(resp, IF repeated THEN FALSE ELSE ~stopEval.shouldStop)

\* the branch of an endpoint with a stopCondition
WithStopCondition(resp, responseData, stopEval) ==
  LET currentResponseHash == JSONstringify(responseData)
      currentHasData == hasData(responseData)
      firstHash == IF loopCounter = 0 THEN currentResponseHash ELSE firstResponseHash
      validData == IF loopCounter = 0 THEN currentHasData ELSE hasValidData
      repeated == loopCounter > 1 /\ currentResponseHash = previousResponseHash
  IN IF loopCounter = 1 /\ currentResponseHash = firstHash /\ validData /\ currentHasData
     THEN Throw(Error("Pagination configuration error: pagination parameters are not being applied correctly"))
     ELSE IF loopCounter = 1 /\ ~validData /\ ~currentHasData
     THEN Throw(Error("Stop condition error"))
     ELSE IF ~repeated /\ "error" \in DOMAIN stopEval
     THEN Throw(Error("Pagination stop condition error"))
     ELSE /\ firstResponseHash' = firstHash
          /\ hasValidData' = validData
          /\ previousResponseHash' = currentResponseHash
          /\ allResults' = IF IsArray(responseData) THEN allResults \o responseData.items
                           ELSE IF Truthy(responseData) THEN Append(allResults, responseData)
                           ELSE allResults
          /\ UNCHANGED seenResponseHashes
          /\ Advance(resp, IF repeated THEN FALSE ELSE ~stopEval.shouldStop)

\* variant: a page already seen is accumulated again and does not end the loop
WithoutStopConditionNoDuplicateCheck(resp, responseData) ==
  LET pageSize == ParseInt(pageSizeOrDefault(endpoint))
      currentResponseHash == JSONstringify(responseData)
  IN /\ UNCHANGED <<firstResponseHash, hasValidData, previousResponseHash>>
     /\ IF IsArray(responseData)
        THEN /\ seenResponseHashes' = seenResponseHashes \cup {currentResponseHash}
             /\ allResults' = allResults \o responseData.items
             /\ Advance(resp, IF pageSize = 0 \/ Len(responseData.items) < pageSize
                              THEN FALSE ELSE hasMore)
        ELSE /\ UNCHANGED seenResponseHashes
             /\ allResults' = IF Truthy(responseData) /\ Len(allResults) = 0
                              THEN Append(allResults, responseData) ELSE allResults
             /\ Advance(resp, FALSE)

\* variant: a page shorter than pageSize does not end the loop
WithoutStopConditionNoLengthCheck(resp, responseData) ==
  LET currentResponseHash == JSONstringify(responseData)
      seen == currentResponseHash \in seenResponseHashes
  IN /\ UNCHANGED <<firstResponseHash, hasValidData, previousResponseHash>>
     /\ IF IsArray(responseData)
        THEN /\ seenResponseHashes' = seenResponseHashes \cup {currentResponseHash}
             /\ allResults' = IF seen THEN allResults ELSE allResults \o responseData.items
             /\ Advance(resp, IF seen THEN FALSE ELSE hasMore)
        ELSE /\ UNCHANGED seenResponseHashes
             /\ allResults' = IF Truthy(responseData) /\ Len(allResults) = 0
                              THEN Append(allResults, responseData) ELSE allResults
             /\ Advance(resp, FALSE)

\* the branch of an endpoint without stopCondition
WithoutStopCondition(resp, responseData) ==
  LET pageSize == ParseInt(pageSizeOrDefault(endpoint))
      currentResponseHash == JSONstringify(responseData)
      seen == currentResponseHash \in seenResponseHashes
  IN /\ UNCHANGED <<firstResponseHash, hasValidData, previousResponseHash>>
     /\ IF IsArray(responseData)
        THEN /\ seenResponseHashes' = seenResponseHashes \cup {currentResponseHash}
             /\ allResults' = IF seen THEN allResults ELSE allResults \o responseData.items
             /\ Advance(resp, IF pageSize = 0 \/ Len(responseData.items) < pageSize \/ seen
                              THEN FALSE ELSE hasMore)
        ELSE /\ UNCHANGED seenResponseHashes
             /\ allResults' = IF Truthy(responseData) /\ Len(allResults) = 0
                              THEN Append(allResults, responseData) ELSE allResults
             /\ Advance(resp, FALSE)

\* the request goes to callAxios and the response is checked and accumulated
HttpRequest ==
  /\ UNCHANGED postgresCalls
  \* evaluateStopCondition: the expression is opaque, any verdict is possible
  /\ \E resp \in ServerResponses(server, Len(responses)),
        stopEval \in {[shouldStop |-> TRUE], [shouldStop |-> FALSE],
                      [shouldStop |-> FALSE, error |-> "evaluation failed"]} :
       /\ requests' = Append(requests,
                             axiosConfig(endpoint, page, offset, cursor, payload, credentials))
       /\ responses' = Append(responses, resp)
       /\ lastResponse' = resp
       /\ IF isErrorResponse(resp)
          THEN Throw(ApiCallError("API call failed", resp.status))
          ELSE IF isHtmlResponse(resp)
          THEN Throw(ApiCallError("Received HTML response", resp.status))
          ELSE IF dataPathThrows(parsedData(resp), dataPathOf(endpoint))
          THEN Throw(TypeError("Cannot read properties of null"))
          ELSE LET responseData == applyDataPath(parsedData(resp), dataPathOf(endpoint))
               IN IF hasStopCondition(endpoint)
                  THEN WithStopCondition(resp, responseData, stopEval)
                  ELSE WithoutStopCondition(resp, responseData)

\* the host is a Postgres connection string: callEndpoint returns what
\* callPostgres returns, or fails with its error
PostgresRequest ==
  /\ \E outcome \in { [rows |-> JArr(<<JObj([id |-> JNum(1)])>>)], [rows |-> PageEmpty],
                       [error |-> "connection refused"] } :
       /\ postgresCalls' =
            Append(postgresCalls,
                   [endpoint |-> postgresEndpoint(endpoint, page, offset, cursor,
                                                  payload, credentials),
                    outcome |-> outcome])
       /\ IF "error" \in DOMAIN outcome
          THEN pc' = "threw" /\ result' = Error(outcome.error)
          ELSE /\ pc' = "delegated"
               /\ result' = [type |-> "ok", data |-> outcome.rows, statusCode |-> 200,
                             headers |-> NoFields]
  /\ UNCHANGED <<allResults, page, offset, cursor, hasMore, loopCounter,
                 seenResponseHashes, previousResponseHash, firstResponseHash,
                 hasValidData, lastResponse, requests, responses>>

LoopIteration ==
  /\ pc = "loop"
  /\ hasMore /\ loopCounter < maxRequests(endpoint)
  /\ IF isPostgresHost(processedUrlHost(endpoint,
                         requestVars(endpoint, page, offset, cursor, payload, credentials)))
     THEN PostgresRequest
     ELSE HttpRequest
  /\ UNCHANGED <<args, execVars, storeVars>>

(***************************************************************************)
(* The code after the loop: the value callEndpoint returns.                *)
(***************************************************************************)
\* variant: a sole element is returned inside its array
returnDataAlwaysArray(e, results, cur) ==
  IF paginationType(e) = "CURSOR_BASED"
  THEN JObj(Spread([next_cursor |-> cur], [results |-> JArr(results)]))
  ELSE JArr(results)

returnData(e, results, cur) ==
  IF paginationType(e) = "CURSOR_BASED"
  THEN JObj(Spread([next_cursor |-> cur],
                   IF IsArray(JArr(results)) THEN [results |-> JArr(results)]
                   ELSE JArr(results).fields))
  ELSE IF Len(results) = 1 THEN results[1] ELSE JArr(results)

Return ==
  /\ pc = "loop"
  /\ ~(hasMore /\ loopCounter < maxRequests(endpoint))
  /\ pc' = "done"
  /\ result' = [type |-> "ok", data |-> returnData(endpoint, allResults, cursor),
                statusCode |-> lastResponse.status]
  /\ UNCHANGED <<args, allResults, page, offset, cursor, hasMore, loopCounter,
                 seenResponseHashes, previousResponseHash, firstResponseHash,
                 hasValidData, lastResponse, requests, responses, postgresCalls>>
  /\ UNCHANGED <<execVars, storeVars>>

Next == LoopIteration \/ Return

Spec == Init /\ [][Next]_vars

(***************************************************************************)
(* Properties of the pagination driver.                                    *)
(***************************************************************************)
\* the data the k-th response yields after parsing and dataPath
ExtractedPage(k) == applyDataPath(parsedData(responses[k]), dataPathOf(endpoint))

\* the response passed the status / error / HTML checks and dataPath could
\* be applied to it
Usable(k) ==
  /\ ~isErrorResponse(responses[k])
  /\ ~isHtmlResponse(responses[k])
  /\ ~dataPathThrows(parsedData(responses[k]), dataPathOf(endpoint))

\* the configured page size as a string and as a number
ConfiguredPageSize ==
  IF "pagination" \in DOMAIN endpoint /\ "pageSize" \in DOMAIN endpoint.pagination
  THEN endpoint.pagination.pageSize ELSE "50"
ConfiguredPageSizeNumber ==
  CASE ConfiguredPageSize = "0" -> 0 [] ConfiguredPageSize = "1" -> 1
    [] ConfiguredPageSize = "2" -> 2 [] ConfiguredPageSize = "50" -> 50

\* the concatenation, in order, of the array pages whose number is in keep
RECURSIVE ConcatPages(_, _, _)
ConcatPages(i, n, keep) ==
  IF i > n THEN <<>>
  ELSE IF i = n THEN (IF i \in keep THEN ExtractedPage(i).items ELSE <<>>)
  ELSE ConcatPages(i, (i + n) \div 2, keep) \o ConcatPages((i + n) \div 2 + 1, n, keep)

\* C1: the number of HTTP requests of a run never exceeds maxRequests: 500
\* without stopCondition, MAX_PAGINATION_REQUESTS with one
C1_RequestsAtMostMaxRequests ==
  Len(requests) <= (IF "pagination" \in DOMAIN endpoint
                       /\ "stopCondition" \in DOMAIN endpoint.pagination
                    THEN 1000 ELSE 500)

C1_Witness ==
  /\ pc = "done" /\ hasMore
  /\ "pagination" \in DOMAIN endpoint /\ "stopCondition" \notin DOMAIN endpoint.pagination
  /\ Len(requests) = 500

\* C2: without stopCondition, a response identical to the one before it ends
\* the loop at that request (the second one when the first two are identical)
\* and leaves the accumulated results as they were
C2_RepeatedPageStops ==
  [][ ( /\ ~hasStopCondition(endpoint)
        /\ Len(responses) >= 1
        /\ Len(responses') = Len(responses) + 1
        /\ responses'[Len(responses')] = responses[Len(responses)] )
      => ( /\ hasMore' = FALSE
           /\ pc' = "loop"
           /\ allResults' = allResults
           /\ Len(requests') = Len(responses') ) ]_vars

C2_Witness ==
  /\ ~hasStopCondition(endpoint)
  /\ pc = "done"
  /\ Len(requests) = 2 /\ Len(responses) = 2
  /\ responses[1] = responses[2]
  /\ allResults = Page12.items

\* C3: without stopCondition and with array pages, a fetched page shorter than
\* pageSize is the first such page, the loop stops at it, and the accumulated
\* results are the concatenation of all pages fetched, that page included
C3_StopsAtFirstShortPage ==
  LET n == Len(responses) IN
  ( /\ ~hasStopCondition(endpoint)
    /\ n >= 1
    /\ \A k \in 1..n : Usable(k) /\ IsArray(ExtractedPage(k))
    /\ Len(ExtractedPage(n).items) < ConfiguredPageSizeNumber )
  => ( /\ pc \in {"loop", "done"}
       /\ hasMore = FALSE
       /\ Len(requests) = n
       /\ \A k \in 1..(n - 1) : Len(ExtractedPage(k).items) >= ConfiguredPageSizeNumber
       /\ allResults = ConcatPages(1, n, 1..n) )

C3_Witness ==
  /\ paginationType(endpoint) = "PAGE_BASED"
  /\ ~hasStopCondition(endpoint)
  /\ ConfiguredPageSize = "2"
  /\ pc = "done"
  /\ Len(requests) = 2
  /\ responses = <<Response(200, Page12), Response(200, Page3)>>
  /\ result.data = JArr(<<JNum(1), JNum(2), JNum(3)>>)

\* C4: request number k carries limit = pageSize = the configured page size
\* (default "50"), offset = (k - 1) * pageSize in OFFSET_BASED mode and
\* page = k in PAGE_BASED mode; where no payload or credential field has the
\* name of a pagination variable, the query parameters {offset}, {limit} and
\* {page} resolve to these values
C4_RequestVariables ==
  \A k \in 1..Len(requests) :
    LET pv == requests[k].paginationVars
        params == requests[k].params
        type == paginationType(endpoint)
    IN /\ pv.limit = JStr(ConfiguredPageSize)
       /\ pv.pageSize = JStr(ConfiguredPageSize)
       /\ type = "OFFSET_BASED" => pv.offset = JNum((k - 1) * ConfiguredPageSizeNumber)
       /\ type = "PAGE_BASED" => pv.page = JNum(k)
       /\ (payload = NoVariables /\ credentials = NoVariables) =>
            /\ "limit" \in DOMAIN params /\ params.limit = ConfiguredPageSize
            /\ type = "OFFSET_BASED" =>
                 /\ "offset" \in DOMAIN params
                 /\ params.offset = ToString((k - 1) * ConfiguredPageSizeNumber)
            /\ type = "PAGE_BASED" =>
                 "page" \in DOMAIN params /\ params.page = ToString(k)

C4_Witness ==
  /\ paginationType(endpoint) = "OFFSET_BASED"
  /\ ConfiguredPageSize = "2"
  /\ payload = NoVariables /\ credentials = NoVariables
  /\ Len(requests) = 2
  /\ requests[1].params.offset = "0" /\ requests[1].params.limit = "2"
  /\ requests[2].params.offset = "2" /\ requests[2].params.limit = "2"

\* the value at the configured cursorPath of the k-th response body
CursorOfResponse(k) ==
  IF "cursorPath" \in DOMAIN endpoint.pagination
  THEN Get(Get(responses[k].data, "meta"), "next_cursor")
  ELSE Get(responses[k].data, "next_cursor")

\* the pages a run without stopCondition leaves out: those equal to an
\* earlier page
FirstOccurrences(n) ==
  {k \in 1..n : \A j \in 1..(k - 1) : ExtractedPage(j) # ExtractedPage(k)}

CursorChain ==
  LET n == Len(responses) IN
  /\ \A k \in 1..n :
       k < Len(requests) =>
         /\ requests[k + 1].paginationVars.cursor = CursorOfResponse(k)
         /\ CursorOfResponse(k) \notin {null, undefined}
  /\ (n >= 1 /\ pc # "threw") => cursor = CursorOfResponse(n)
  /\ (pc = "done") => Get(result.data, "next_cursor") = CursorOfResponse(n)

\* C5 as stated: in CURSOR_BASED mode the cursor follows the value at
\* cursorPath, a null / absent value ends the run, and the result is
\* {next_cursor, results} with results the concatenation of all extracted pages
C5_AsStated ==
  LET n == Len(responses) IN
  (paginationType(endpoint) = "CURSOR_BASED") =>
    /\ CursorChain
    /\ (pc = "done" /\ \A k \in 1..n : IsArray(ExtractedPage(k))) =>
         result.data = JObj([next_cursor |-> CursorOfResponse(n),
                             results |-> JArr(ConcatPages(1, n, 1..n))])

\* C5 (amended): as above, but without stopCondition a page identical to an
\* earlier page of the run is not added to results
C5_CursorPagination ==
  LET n == Len(responses) IN
  (paginationType(endpoint) = "CURSOR_BASED") =>
    /\ CursorChain
    /\ (pc = "done" /\ \A k \in 1..n : IsArray(ExtractedPage(k))) =>
         result.data = JObj([next_cursor |-> CursorOfResponse(n),
                             results |-> JArr(ConcatPages(1, n,
                                IF hasStopCondition(endpoint) THEN 1..n
                                ELSE FirstOccurrences(n)))])

C5_Witness ==
  /\ paginationType(endpoint) = "CURSOR_BASED"
  /\ pc = "done"
  /\ Len(requests) = 2
  /\ requests[2].paginationVars.cursor = JStr("c1")
  /\ responses = <<Response(200, ObjPage(Page12, JStr("c1"))),
                   Response(200, ObjPage(Page3, null))>>
  /\ result.data = JObj([next_cursor |-> null,
                         results |-> JArr(<<JNum(1), JNum(2), JNum(3)>>)])

\* C6: outside cursor-based mode the call returns the accumulated array, or
\* its sole element when exactly one element was accumulated
C6_ReturnsArrayOrSoleElement ==
  (pc = "done" /\ paginationType(endpoint) # "CURSOR_BASED") =>
    /\ result.type = "ok"
    /\ Len(allResults) = 1 => result.data = allResults[1]
    /\ Len(allResults) # 1 => result.data = JArr(allResults)

C6_Witness ==
  /\ pc = "done"
  /\ paginationType(endpoint) # "CURSOR_BASED"
  /\ responses = <<Response(200, JObj([result |-> JStr("success")]))>>
  /\ result.data = JObj([result |-> JStr("success")])

\* C7: in CURSOR_BASED mode a single-object answer is returned as
\* {next_cursor, ...object}
C7_SingleObjectIsSpread ==
  ( /\ pc = "done"
    /\ paginationType(endpoint) = "CURSOR_BASED"
    /\ Len(responses) = 1
    /\ ExtractedPage(1).kind = "object" )
  => result.data = JObj(Spread([next_cursor |-> cursor], ExtractedPage(1).fields))

\* the body is a string whose first 100 characters, trimmed and lower-cased,
\* start with <!doctype html or <html
HtmlBody(b) ==
  /\ b.kind = "string"
  /\ b.ws < 50
  /\ b.text \in {"<!DOCTYPE html><html><body>Error page</body></html>",
                 "<HTML><body>Error page</body></HTML>"}

\* C8: a response with an accepted status and an HTML body makes the call fail
\* with "Received HTML response", on whichever page it arrives
C8_HtmlResponseFails ==
  \A k \in 1..Len(responses) :
    (responses[k].status \in 200..205 /\ HtmlBody(responses[k].data)) =>
      /\ k = Len(responses)
      /\ pc = "threw"
      /\ result.type = "error"
      /\ result.message = "Received HTML response"

C8_Witness ==
  /\ pc = "threw"
  /\ Len(responses) = 2
  /\ responses[2] = Response(200, JPad(2, "<HTML><body>Error page</body></HTML>"))
  /\ result.message = "Received HTML response"

\* the call failed at response k with an ApiCallError carrying its status
FailedAt(k) ==
  /\ k = Len(responses)
  /\ pc = "threw"
  /\ result = [type |-> "error", name |-> "ApiCallError",
               message |-> "API call failed", statusCode |-> responses[k].status]

NonEmptyErrors(b) ==
  /\ b.kind = "object" /\ "errors" \in DOMAIN b.fields
  /\ b.fields.errors.kind = "array" /\ b.fields.errors.items # <<>>

\* C9 as stated: a non-2xx status, a body with an error member or a body with
\* a non-empty errors array raises an ApiCallError with the response status
C9_AsStated ==
  \A k \in 1..Len(responses) :
    ( \/ responses[k].status \notin 200..299
      \/ (responses[k].data.kind = "object" /\ "error" \in DOMAIN responses[k].data.fields)
      \/ NonEmptyErrors(responses[k].data) )
    => FailedAt(k)

\* C9 (amended): the error member must be truthy (not null, "", 0 or false)
C9_ErrorResponseFails ==
  \A k \in 1..Len(responses) :
    ( \/ responses[k].status \notin 200..299
      \/ ( /\ responses[k].data.kind = "object"
           /\ "error" \in DOMAIN responses[k].data.fields
           /\ responses[k].data.fields.error.kind \notin {"null", "undefined"}
           /\ responses[k].data.fields.error # JStr("")
           /\ responses[k].data.fields.error # JNum(0) )
      \/ NonEmptyErrors(responses[k].data) )
    => FailedAt(k)

C9_Witness ==
  /\ Len(responses) = 2
  /\ responses[2].status = 200
  /\ NonEmptyErrors(responses[2].data)
  /\ allResults # <<>>
  /\ FailedAt(2)

NonEmptyData(d) ==
  \/ d.kind = "array" /\ d.items # <<>>
  \/ d.kind = "object" /\ DOMAIN d.fields # {}

\* C10: with a stopCondition, identical non-empty extracted data in the first
\* two responses fails the call at the second request with the pagination
\* configuration error
C10_IdenticalFirstPagesFail ==
  ( /\ hasStopCondition(endpoint)
    /\ Len(responses) >= 2
    /\ Usable(1) /\ Usable(2)
    /\ ExtractedPage(1) = ExtractedPage(2)
    /\ NonEmptyData(ExtractedPage(1)) )
  => ( /\ pc = "threw"
       /\ Len(requests) = 2 /\ Len(responses) = 2
       /\ result = Error("Pagination configuration error: pagination parameters are not being applied correctly") )

C10_Witness ==
  /\ hasStopCondition(endpoint)
  /\ pc = "threw"
  /\ Len(responses) = 2
  /\ responses[1] # responses[2]
  /\ ExtractedPage(1) = ExtractedPage(2)
  /\ result.message = "Pagination configuration error: pagination parameters are not being applied correctly"

(***************************************************************************)
(* Properties of request building.                                         *)
(***************************************************************************)
\* C11: the scope of request k is {...payload, ...credentials,
\* ...paginationVars}: a pagination variable wins over a credential of the same
\* name and a credential over a payload field, so every query parameter is
\* resolved from that scope
C11_ScopePrecedence ==
  \A k \in 1..Len(requests) :
    requests[k].params =
      processedQueryParams(endpoint,
        Spread(Spread(payload, credentials), requests[k].paginationVars))

\* the scope request k was resolved with
ScopeOfRequest(k) == Spread(requests[k].paginationVars, Spread(payload, credentials))

\* the words a header template resolves to
ResolvedWords(template, scope) ==
  [i \in DOMAIN template |-> replaceVariables(template[i], scope)]

ConfiguredHeaders == IF "headers" \in DOMAIN endpoint THEN endpoint.headers ELSE <<>>

C13_DoubledSchemeDeduplicated ==
  \A k \in {Len(requests)} \ {0} :
    \A name \in DOMAIN ConfiguredHeaders \cap {"Authorization", "authorization"} :
      LET v == ResolvedWords(ConfiguredHeaders[name], ScopeOfRequest(k))
      IN (Len(v) = 3 /\ v[1] = v[2] /\ v[1] \in {"Basic", "Bearer"}) =>
           /\ name \in DOMAIN requests[k].headers
           /\ requests[k].headers[name] =
                (IF v[1] = "Basic" /\ v[3] = "user:pass"
                 THEN <<"Basic", "dXNlcjpwYXNz">> ELSE <<v[1], v[3]>>)

\* the host of the call after variable substitution
ResolvedHost == replaceVariables(endpoint.urlHost, Spread(payload, credentials))

\* C14: when the resolved host starts with postgres:// or postgresql://, the
\* call hands the endpoint to callPostgres exactly once, sends no HTTP request,
\* does not paginate and returns the rows of callPostgres with statusCode 200
\* and empty headers; any other call never reaches callPostgres and every
\* iteration of it is a request to callAxios
C14_PostgresDelegation ==
  IF ResolvedHost \in {PostgresUrl, PostgresqlUrl}
  THEN /\ requests = <<>> /\ responses = <<>>
       /\ loopCounter = 0 /\ page = 1 /\ offset = 0
       /\ pc \in {"loop", "delegated", "threw"}
       /\ Len(postgresCalls) = (IF pc = "loop" THEN 0 ELSE 1)
       /\ pc = "delegated" =>
            result = [type |-> "ok", data |-> postgresCalls[1].outcome.rows,
                      statusCode |-> 200, headers |-> <<>>]
       /\ pc = "threw" => "error" \in DOMAIN postgresCalls[1].outcome
  ELSE /\ postgresCalls = <<>>
       /\ pc # "delegated"
       /\ Len(requests) = Len(responses)
       /\ Len(requests) = loopCounter + (IF pc = "threw" THEN 1 ELSE 0)

C14_Witness ==
  /\ pc = "delegated"
  /\ endpoint.urlHost = Var("dbUrl")
  /\ "pagination" \in DOMAIN endpoint
  /\ Len(postgresCalls) = 1
  /\ postgresCalls[1].endpoint.urlHost = Lit(PostgresUrl)
  /\ requests = <<>>
  /\ result.data = JArr(<<JObj([id |-> JNum(1)])>>)

(***************************************************************************)
(* Part 2: executeApiCall (the self-healing coordinator).                  *)
(* Attempt is one pass through the body of the do-while loop, its catch    *)
(* block and the loop condition included; Finish is the code after the     *)
(* loop.  The step (callEndpoint) and the LLM (generateObject behind       *)
(* generateApiConfig and evaluateResponse) are the environment: in the     *)
(* world "any" every outcome is possible at every call, in the world       *)
(* "down" the step fails every time and the LLM always submits a config.   *)
(***************************************************************************)
\* server_defaults.MAX_CALL_RETRIES
MAX_CALL_RETRIES == 8

\* variant: every mode but DISABLED heals the request
isSelfHealingEnabledUnlessDisabled(opts) ==
  "selfHealing" \in DOMAIN opts /\ opts.selfHealing # "DISABLED"

\* isSelfHealingEnabled(options): healing of the request is on
isSelfHealingEnabled(opts) ==
  "selfHealing" \in DOMAIN opts /\ opts.selfHealing \in {"ENABLED", "REQUEST_ONLY"}

\* variant: options.retries is ignored
retriesIgnoringOptions(opts) == MAX_CALL_RETRIES

\* options?.retries !== undefined ? options.retries : server_defaults.MAX_CALL_RETRIES
retries(opts) == IF "retries" \in DOMAIN opts THEN opts.retries ELSE MAX_CALL_RETRIES

\* A message text: a label of what it says and the strings of the request
\* that occur in it verbatim.  The texts of the model are shorter than the
\* 1000 and 2000 characters they are cut to.
Msg(text, contains) == [text |-> text, contains |-> contains]
Prefixed(prefix, message) == [message EXCEPT !.text = prefix \o @]

\* maskCredentials(message, credentials): the values of the credentials
\* handed in no longer occur in the message
maskCredentials(message, cr) ==
  [message EXCEPT !.contains = @ \ {JSString(cr[n]) : n \in DOMAIN cr}]

\* the message of the ApiCallError of a failed response: it carries
\* maskCredentials(JSON.stringify(axiosConfig)), masked without credentials
failedResponseMessage(e, pl, cr, st) ==
  LET config == axiosConfig(e, 1, 0, null, pl, cr)
      \* the strings of the request config: the words of its headers and its
      \* query parameters
      configStrings ==
        UNION {{config.headers[k][i] : i \in DOMAIN config.headers[k]} :
                 k \in DOMAIN config.headers}
        \cup {config.params[k] : k \in DOMAIN config.params}
  IN Prefixed("API call failed with status " \o ToString(st) \o ". config: ",
              maskCredentials(Msg("", configStrings), NoFields))

\* what callEndpoint may do
CallEndpointOutcomes(e, pl, cr, w) ==
  IF w = "down"
  THEN {ApiCallError(failedResponseMessage(e, pl, cr, 503), 503)}
  ELSE { [type |-> "ok", data |-> Page12, statusCode |-> 200, headers |-> NoFields],
         [type |-> "ok", data |-> JNum(0), statusCode |-> 200, headers |-> NoFields],
         ApiCallError(failedResponseMessage(e, pl, cr, 401), 401),
         ApiCallError(failedResponseMessage(e, pl, cr, 503), 503),
         Error(Msg("Stop condition error", {})) }

\* what generateApiConfig may do: the LLM submits a config (the one of retry
\* number n) or an error string, the request to the LLM fails, or the
\* assembly of the user prompt throws before the LLM is asked (the search of
\* the documentation is rejected)
GenerateOutcomes(e, n, w) ==
  LET generatedConfig ==
        [e EXCEPT !.urlHost = Lit("https://api.example.com/v" \o ToString(n))]
  IN IF w = "down"
     THEN {[type |-> "config", config |-> generatedConfig]}
     ELSE { [type |-> "config", config |-> generatedConfig],
            [type |-> "error", error |-> "cannot be fixed"],
            [type |-> "failure"],
            [type |-> "thrown"] }

AbortError(msg) == [type |-> "error", name |-> "AbortError", message |-> msg]

AssistantMessage(n) == [role |-> "assistant", content |-> Msg("submit " \o ToString(n), {})]

\* the messages generateApiConfig hands to the LLM: it starts the
\* conversation when it is empty
promptedMessages(msgs) ==
  IF Len(msgs) = 0
  THEN << [role |-> "system", content |-> Msg("SELF_HEALING_API_AGENT_PROMPT", {})],
          [role |-> "user", content |-> Msg("Generate API configuration", {})] >>
  ELSE msgs

\* the start of an executeApiCall run.  Its endpoint sends a credential in
\* a header; its options hold a budget up to MaxRetries where outcomes are
\* arbitrary, any budget or the default where the step is down
InitExec ==
  /\ endpoint = [testConfig EXCEPT
                   !.headers = ContentTypeJson @@ ("X-Api-Key" :> <<Var("token")>>)]
  /\ payload = NoVariables
  /\ credentials \in {NoFields, [token |-> JStr("abc")]}
  /\ server = "script"
  /\ DriverStart
  /\ StoreIdle
  /\ world \in {"any", "down"}
  /\ options \in
       { With([selfHealing |-> m], "retries", r, r >= 0) :
           m \in {"ENABLED", "REQUEST_ONLY", "TRANSFORM_ONLY", "DISABLED"},
           r \in (0..MaxRetries)
                   \cup (IF world = "down" THEN {-1, MAX_CALL_RETRIES + 1} ELSE {}) }
  /\ retryCount = 0
  /\ lastError = null
  /\ caught = null
  /\ messages = <<>>
  /\ success = FALSE
  /\ response = null
  /\ execPc = "attempt"
  /\ execResult = NoResult
  /\ calls = <<>>

\* variant: an AbortError is retried like any other error
CatchRetryingAbortError(error, msgs, resp) ==
  LET rawErrorString == error.message
  IN /\ caught' = error
     /\ lastError' = maskCredentials(rawErrorString, credentials)
     /\ messages' =
          IF retryCount > 0
          THEN Append(msgs, [role |-> "user",
                             content |-> Prefixed("There was an error with the configuration, please fix: ",
                                                  rawErrorString)])
          ELSE msgs
     /\ response' =
          IF "statusCode" \in DOMAIN resp /\ resp.statusCode # 0 THEN resp
          ELSE (IF resp = null THEN <<>> ELSE resp) @@
               [statusCode |-> IF error.name = "ApiCallError" THEN error.statusCode ELSE 500]
     /\ success' = FALSE
     /\ retryCount' = retryCount + 1
     /\ execPc' = IF retryCount + 1 < retries(options) THEN "attempt" ELSE "after"

\* variant: lastError keeps the error of the first failed attempt
CatchKeepingFirstError(error, msgs, resp) ==
  LET rawErrorString == error.message
      aborted == error.name = "AbortError"
  IN /\ caught' = error
     /\ lastError' = IF lastError = null THEN maskCredentials(rawErrorString, credentials)
                     ELSE lastError
     /\ messages' =
          IF retryCount > 0
          THEN Append(msgs, [role |-> "user",
                             content |-> Prefixed("There was an error with the configuration, please fix: ",
                                                  rawErrorString)])
          ELSE msgs
     /\ response' =
          IF "statusCode" \in DOMAIN resp /\ resp.statusCode # 0 THEN resp
          ELSE (IF resp = null THEN <<>> ELSE resp) @@
               [statusCode |-> IF error.name = "ApiCallError" THEN error.statusCode ELSE 500]
     /\ success' = FALSE
     /\ retryCount' = IF aborted THEN retryCount ELSE retryCount + 1
     /\ execPc' = IF ~aborted /\ retryCount + 1 < retries(options)
                  THEN "attempt" ELSE "after"

\* the catch block and the loop condition
Catch(error, msgs, resp) ==
  LET rawErrorString == error.message
      aborted == error.name = "AbortError"
  IN /\ caught' = error
     /\ lastError' = maskCredentials(rawErrorString, credentials)
     /\ messages' =
          IF retryCount > 0
          THEN Append(msgs, [role |-> "user",
                             content |-> Prefixed("There was an error with the configuration, please fix: ",
                                                  rawErrorString)])
          ELSE msgs
     /\ response' =
          IF "statusCode" \in DOMAIN resp /\ resp.statusCode # 0 THEN resp
          ELSE (IF resp = null THEN <<>> ELSE resp) @@
               [statusCode |-> IF error.name = "ApiCallError" THEN error.statusCode ELSE 500]
     /\ success' = FALSE
     /\ retryCount' = IF aborted THEN retryCount ELSE retryCount + 1
     /\ execPc' = IF ~aborted /\ retryCount + 1 < retries(options)
                  THEN "attempt" ELSE "after"

\* the step answered and was accepted
Succeed(msgs, resp) ==
  /\ success' = TRUE
  /\ messages' = msgs
  /\ response' = resp
  /\ execPc' = "after"
  /\ UNCHANGED <<retryCount, lastError, caught>>

\* an entry of the call log
Call(op, outcome) == [op |-> op, retryCount |-> retryCount, outcome |-> outcome]

\* variant: the answer of the step is never handed to evaluateResponse
CallStepWithoutEvaluation(msgs, log) ==
  \E out \in CallEndpointOutcomes(endpoint', payload, credentials, world) :
    LET resp == [data |-> out.data, statusCode |-> out.statusCode, headers |-> out.headers]
    IN IF out.type = "error"
       THEN calls' = Append(log, Call("callEndpoint", "error")) /\ Catch(out, msgs, response)
       ELSE IF ~Truthy(out.data)
       THEN /\ calls' = Append(log, Call("callEndpoint", "no data"))
            /\ Catch(Error(Msg("No data returned from API. This could be due to a configuration error.", {})),
                     msgs, resp)
       ELSE calls' = Append(log, Call("callEndpoint", "data")) /\ Succeed(msgs, resp)

\* the try block from the call of callEndpoint on
CallStep(msgs, log) ==
  \E out \in CallEndpointOutcomes(endpoint', payload, credentials, world),
     verdict \in { [type |-> "verdict", success |-> TRUE],
                   [type |-> "verdict", success |-> FALSE,
                    shortReason |-> "data does not match"],
                   [type |-> "failure"] } :
    LET evaluates == retryCount > 0 /\ isSelfHealingEnabled(options)
        resp == [data |-> out.data, statusCode |-> out.statusCode, headers |-> out.headers]
    IN IF out.type = "error"
       THEN calls' = Append(log, Call("callEndpoint", "error")) /\ Catch(out, msgs, response)
       ELSE IF ~Truthy(out.data)
       THEN /\ calls' = Append(log, Call("callEndpoint", "no data"))
            /\ Catch(Error(Msg("No data returned from API. This could be due to a configuration error.", {})),
                     msgs, resp)
       ELSE IF ~evaluates
       THEN calls' = Append(log, Call("callEndpoint", "data")) /\ Succeed(msgs, resp)
       ELSE IF verdict.type = "failure"
       THEN /\ calls' = log \o <<Call("callEndpoint", "data"), Call("evaluateResponse", "failure")>>
            /\ Catch(Error(Msg("evaluation failed", {})), msgs, resp)
       ELSE IF ~verdict.success
       THEN /\ calls' = log \o <<Call("callEndpoint", "data"), Call("evaluateResponse", "rejected")>>
            /\ Catch(Error(Msg(verdict.shortReason, {})), msgs, resp)
       ELSE /\ calls' = log \o <<Call("callEndpoint", "data"), Call("evaluateResponse", "accepted")>>
            /\ Succeed(msgs, resp)

Attempt ==
  /\ execPc = "attempt"
  /\ IF retryCount > 0 /\ isSelfHealingEnabled(options)
     THEN \E gen \in GenerateOutcomes(endpoint, retryCount, world) :
            LET log == Append(calls, Call("generateApiConfig", gen.type))
                msgs == promptedMessages(messages)
            IN \* the prompt is assembled only for an empty conversation
               /\ gen.type = "thrown" => Len(messages) = 0
               /\ IF gen.type = "config"
                  THEN /\ endpoint' = gen.config
                       /\ CallStep(Append(msgs, AssistantMessage(retryCount)), log)
                  ELSE IF gen.type = "thrown"
                  THEN \* nothing was pushed yet: the catch block gets the
                       \* conversation as it was
                       /\ endpoint' = endpoint
                       /\ calls' = log
                       /\ Catch(Error(Msg("documentation search failed", {})),
                                messages, response)
                  ELSE /\ endpoint' = endpoint
                       /\ calls' = log
                       /\ Catch(IF gen.type = "error" THEN AbortError(Msg(gen.error, {}))
                                ELSE Error(Msg("LLM request failed", {})),
                                msgs, response)
     ELSE /\ endpoint' = endpoint
          /\ CallStep(messages, calls)
  /\ UNCHANGED <<payload, credentials, options, world, execResult, driverVars, storeVars>>

\* the code after the loop
Finish ==
  /\ execPc = "after"
  /\ IF ~success
     THEN /\ execPc' = "threw"
          /\ execResult' =
               ApiCallError(Prefixed("API call failed after " \o ToString(retryCount)
                                     \o " retries. Last error: ", lastError),
                            response.statusCode)
     ELSE /\ execPc' = "returned"
          /\ execResult' = [type |-> "ok", data |-> response.data, endpoint |-> endpoint,
                            statusCode |-> response.statusCode,
                            headers |-> response.headers]
  /\ UNCHANGED <<endpoint, payload, credentials, options, world, retryCount, lastError,
                 messages, success, response, caught, calls, driverVars, storeVars>>

NextExec == Attempt \/ Finish

SpecExec == InitExec /\ [][NextExec]_vars

(***************************************************************************)
(* Properties of the self-healing coordinator.                             *)
(***************************************************************************)
\* the retry budget of the run and the attempts made so far
Budget == IF "retries" \in DOMAIN options THEN options.retries ELSE 8
Attempts == Cardinality({i \in DOMAIN calls : calls[i].op = "callEndpoint"})
Aborted ==
  \E i \in DOMAIN calls : calls[i].op = "generateApiConfig" /\ calls[i].outcome = "error"

\* C15 as stated: for every budget, 0 included, the step is attempted at most
\* budget times, and the call throws once the budget is used up without success
C15_AsStated ==
  /\ Attempts <= Budget
  /\ (execPc = "threw" /\ ~Aborted) => retryCount = Budget

\* C15 (amended): the first attempt is made whatever the budget; the step is
\* attempted at most max(1, budget) times, and a call that has not succeeded
\* after that many passes throws an ApiCallError
C15_AttemptsWithinBudget ==
  LET passes == IF Budget < 1 THEN 1 ELSE Budget IN
  /\ Attempts <= passes
  /\ retryCount <= passes
  /\ (execPc = "attempt") => retryCount < passes
  /\ (execPc \in {"after", "threw"} /\ ~success /\ ~Aborted) => retryCount = passes
  /\ (execPc \in {"returned", "threw"}) =>
       IF success THEN execPc = "returned"
       ELSE execPc = "threw" /\ execResult.name = "ApiCallError"

C15_Witness ==
  /\ "retries" \notin DOMAIN options
  /\ execPc = "threw"
  /\ Attempts = 8

\* C16: an error string from the LLM ends the run: no LLM call and no attempt
\* of the step follows it, and the call fails
C16_LlmErrorAborts ==
  \A i \in DOMAIN calls :
    (calls[i].op = "generateApiConfig" /\ calls[i].outcome = "error") =>
      /\ i = Len(calls)
      /\ ~success
      /\ execPc \in {"after", "threw"}
      /\ execPc = "threw" => execResult.name = "ApiCallError"

C16_Witness ==
  /\ execPc = "threw"
  /\ Budget = 3
  /\ Len(calls) = 2
  /\ calls[2].op = "generateApiConfig" /\ calls[2].outcome = "error"

\* C17 as stated: with healing ENABLED or REQUEST_ONLY, every answer of the
\* step that carries data, the one of the first attempt included, is handed
\* to the evaluator before the call returns
C17_AsStated ==
  \A i \in DOMAIN calls :
    ( /\ calls[i].op = "callEndpoint" /\ calls[i].outcome = "data"
      /\ "selfHealing" \in DOMAIN options
      /\ options.selfHealing \in {"ENABLED", "REQUEST_ONLY"} )
    => (i < Len(calls) /\ calls[i + 1].op = "evaluateResponse")

\* C17 (amended): as above for every attempt after the first; the answer of
\* the first attempt is returned without evaluation.  A verdict that is not
\* positive is an error of the attempt: the call does not return on it
C17_EvaluatedAfterFirstAttempt ==
  /\ \A i \in DOMAIN calls :
       ( /\ calls[i].op = "callEndpoint" /\ calls[i].outcome = "data"
         /\ "selfHealing" \in DOMAIN options
         /\ options.selfHealing \in {"ENABLED", "REQUEST_ONLY"} )
       => IF calls[i].retryCount > 0
          THEN i < Len(calls) /\ calls[i + 1].op = "evaluateResponse"
          ELSE i = Len(calls) /\ success
  /\ \A i \in DOMAIN calls :
       (calls[i].op = "evaluateResponse" /\ calls[i].outcome # "accepted" /\ i = Len(calls))
       => /\ ~success /\ execPc # "returned"
          /\ lastError.text \in {"data does not match", "evaluation failed"}

C17_Witness ==
  /\ execPc = "returned"
  /\ options.selfHealing = "REQUEST_ONLY"
  /\ Len(calls) = 7
  /\ calls[4].op = "evaluateResponse" /\ calls[4].outcome = "rejected"
  /\ calls[7].op = "evaluateResponse" /\ calls[7].outcome = "accepted"

\* C18: no error message that leaves the run, the ApiCallError thrown to the
\* client or a user-role message appended to the LLM conversation, contains
\* the value of a credential
C18_ErrorMessagesMasked ==
  /\ \A i \in DOMAIN messages :
       messages[i].role = "user" =>
         messages[i].content.contains \cap {credentials[n].text : n \in DOMAIN credentials} = {}
  /\ execPc = "threw" =>
       execResult.message.contains \cap {credentials[n].text : n \in DOMAIN credentials} = {}


(***************************************************************************)
(* Part 3: the datastore, PostgresService.                                 *)
(*                                                                         *)
(* A table is a function from its primary key to the other columns of the  *)
(* row.  A JSONB column holds the value JSON.stringify wrote, as the       *)
(* driver parses it when the row is read.                                  *)
(***************************************************************************)

\* rows the model puts into table configurations
MaxRows == 2

\* a Date, as the instant it stands for; Date(0) is Invalid Date
Date(t) == [kind |-> "date", time |-> t]
Times == 1..3

\* Date.prototype.toJSON
toISOString(d) == "2024-01-0" \o ToString(d.time) \o "T00:00:00.000Z"

\* a Date constructor that makes a date of any string
newDateOfAnyString(s) == Date(1)

\* new Date(string)
newDate(s) ==
  IF \E t \in Times : toISOString(Date(t)) = s
  THEN Date(CHOOSE t \in Times : toISOString(Date(t)) = s)
  ELSE Date(0)

\* JSON.stringify(value) written to a JSONB column and read back: a Date
\* becomes its ISO string, a member holding undefined disappears
RECURSIVE toJSONB(_)
toJSONB(v) ==
  CASE v.kind = "date" -> JStr(toISOString(v))
    [] v.kind = "object" ->
         JObj([k \in {m \in DOMAIN v.fields : v.fields[m].kind # "undefined"} |->
                 toJSONB(v.fields[k])])
    [] v.kind = "array" -> JArr([i \in DOMAIN v.items |-> toJSONB(v.items[i])])
    [] OTHER -> v

RECURSIVE parseDates(_)
parseDates(data) ==
  IF ~Truthy(data) THEN data
  ELSE JObj([k \in DOMAIN data.fields |->
               IF k \in {"createdAt", "updatedAt", "startedAt", "completedAt"}
                  /\ Truthy(data.fields[k]) /\ data.fields[k].kind = "string"
               THEN newDate(data.fields[k].text)
               ELSE IF k = "config" /\ Truthy(data.fields[k])
                    THEN parseDates(data.fields[k])
                    ELSE data.fields[k]])

orgKeyShared(orgId) == ""

\* orgId || ''
orgKey(orgId) == IF Truthy(orgId) THEN orgId.text ELSE ""

extractVersion(config) ==
  IF Truthy(Get(config, "version")) THEN Get(config, "version") ELSE null

deleteNoRow(table, key) == table

\* DELETE FROM table WHERE the primary key is `key`
deleteRow(table, key) == [k \in DOMAIN table \ {key} |-> table[k]]

onConflictOnIdDoUpdate(table, key, row) ==
  [k \in DOMAIN table \cup {key} |->
     IF k[1] = key[1] /\ k[Len(k)] = key[Len(key)] THEN row ELSE table[k]]

onConflictDoNothing(table, key, row) ==
  [k \in DOMAIN table \cup {key} |-> IF k \in DOMAIN table THEN table[k] ELSE row]

\* INSERT ... ON CONFLICT (primary key) DO UPDATE SET the columns of `row`
onConflictDoUpdate(table, key, row) ==
  [k \in DOMAIN table \cup {key} |-> IF k = key THEN row ELSE table[k]]

ConfigTypes == {"api", "extract", "transform", "workflow"}
ConfigIds == {"", "a"}
OrgIds == {undefined, JStr("org1")}

\* the configs handed to upsert under `id`: ApiConfig, ExtractConfig and
\* TransformConfig carry an instruction, a Workflow its steps as well, a
\* step an ApiConfig of its own
Configs(id, type) ==
  IF type = "workflow"
  THEN { JObj([id |-> JStr(id), instruction |-> JStr("Test workflow"),
               steps |-> JArr(<<>>), createdAt |-> Date(1), updatedAt |-> Date(1)]),
         JObj([id |-> JStr(id), instruction |-> JStr("Updated workflow"),
               steps |-> JArr(<<JObj([id |-> JStr("s1"),
                                      apiConfig |-> JObj([id |-> JStr("s1"),
                                                          instruction |-> JStr("Test API"),
                                                          createdAt |-> Date(1)])])>>),
               version |-> JStr("2"), createdAt |-> Date(1), updatedAt |-> Date(2)]) }
  ELSE IF type = "api"
  THEN { JObj([id |-> JStr(id), instruction |-> JStr("Test API"),
               createdAt |-> Date(1), updatedAt |-> Date(1)]),
         JObj([id |-> JStr(id), instruction |-> JStr("Updated API"),
               version |-> JStr("2"), headers |-> undefined,
               createdAt |-> Date(1), updatedAt |-> Date(2)]) }
  ELSE { JObj([id |-> JStr(id), instruction |-> JStr("Test " \o type),
               createdAt |-> Date(1), updatedAt |-> Date(1)]) }

\* upsertApiConfig, upsertExtractConfig, upsertTransformConfig, upsertWorkflow
upsertConfig ==
  /\ \E id \in ConfigIds, type \in ConfigTypes, orgId \in OrgIds :
       \E config \in Configs(id, type) \cup {null} :
         LET key == <<id, type, orgKey(orgId)>>
             call == [op |-> "upsertConfig", id |-> id, type |-> type, orgId |-> orgId,
                      config |-> config]
         IN IF id = "" \/ ~Truthy(config)
            THEN /\ lastCall' = [call EXCEPT !.op = "upsertConfig returned early"]
                 /\ UNCHANGED <<configurations, written>>
            ELSE /\ key \in DOMAIN configurations
                    \/ Cardinality(DOMAIN configurations) < MaxRows
                 /\ configurations' =
                      onConflictDoUpdate(configurations, key,
                                         [version |-> extractVersion(config),
                                          data |-> toJSONB(config),
                                          integration_ids |-> <<>>])
                 /\ written' = [k \in DOMAIN written \cup {key} |->
                                  IF k = key THEN config ELSE written[k]]
                 /\ lastCall' = call
  /\ UNCHANGED <<endpoint, payload, credentials, driverVars, execVars, poolVars, runLog, runs, integrations>>

\* getApiConfig, getExtractConfig, getTransformConfig, getWorkflow
getConfig ==
  /\ \E id \in ConfigIds, type \in ConfigTypes, orgId \in OrgIds :
       LET key == <<id, type, orgKey(orgId)>>
           data == parseDates(configurations[key].data)
       IN lastCall' =
            [op |-> "getConfig", id |-> id, type |-> type, orgId |-> orgId,
             result |-> IF id # "" /\ key \in DOMAIN configurations
                        THEN JObj([k \in DOMAIN data.fields \cup {"id"} |->
                                     IF k = "id" THEN JStr(id) ELSE data.fields[k]])
                        ELSE null]
  /\ UNCHANGED <<endpoint, payload, credentials, driverVars, execVars, poolVars, runLog, configurations,
                 runs, integrations, written>>

\* deleteApiConfig, deleteExtractConfig, deleteTransformConfig, deleteWorkflow
deleteConfig ==
  /\ \E id \in ConfigIds, type \in ConfigTypes, orgId \in OrgIds :
       LET key == <<id, type, orgKey(orgId)>>
           call == [op |-> "deleteConfig", id |-> id, type |-> type, orgId |-> orgId,
                    deleted |-> FALSE]
       IN IF id = ""
          THEN /\ lastCall' = call
               /\ UNCHANGED <<configurations, written>>
          ELSE /\ configurations' = deleteRow(configurations, key)
               /\ written' = [k \in DOMAIN written \ {key} |-> written[k]]
               /\ lastCall' = [call EXCEPT !.deleted = key \in DOMAIN configurations]
  /\ UNCHANGED <<endpoint, payload, credentials, driverVars, execVars, poolVars, runLog, runs, integrations>>

\* a store right after construction; no callEndpoint or executeApiCall takes part
InitStore ==
  /\ endpoint = testConfig
  /\ payload = NoVariables
  /\ credentials = NoFields
  /\ server = "script"
  /\ DriverStart
  /\ ExecIdle
  /\ StoreIdle

NextConfigs == upsertConfig \/ getConfig \/ deleteConfig

SpecConfigs == InitStore /\ [][NextConfigs]_vars

(***************************************************************************)
(* Table runs.                                                             *)
(***************************************************************************)

\* a query parameter as the driver sends it: undefined is sent as NULL
sqlParam(v) == IF v.kind = "undefined" THEN null ELSE v

\* parseInt of a count the driver returns as text, and the integer
\* PostgreSQL reads from a LIMIT or OFFSET parameter sent as text
MaxInteger == 10
integerOf(text) == CHOOSE n \in 0..MaxInteger : ToString(n) = text

Min(a, b) == IF a < b THEN a ELSE b

\* the runs handed to createRun: run1 is stored a second time with a later
\* start, run2 and run3 started at the same instant
RunResults ==
  LET Run(id, t, configId) ==
        JObj([id |-> JStr(id), startedAt |-> Date(t), completedAt |-> Date(t),
              error |-> null,
              config |-> JObj([id |-> JStr(configId), instruction |-> JStr("Test API"),
                               createdAt |-> Date(1)])])
  IN { Run("run1", 1, "config1"), Run("run1", 3, "config1"), Run("run2", 2, "config2"),
       Run("run3", 2, "config1") }

\* WHERE org_id = $1 [AND config_id = $2]
matchingRuns(table, configId, org) ==
  { k \in DOMAIN table :
      k[2] = org /\ (Truthy(configId) => table[k].config_id = configId) }

\* ORDER BY started_at DESC: every order of the rows in which started_at
\* does not increase; rows with equal started_at come in any order
orderByStartedAtDesc(table, keys) ==
  { order \in [1..Cardinality(keys) -> keys] :
      /\ \A i, j \in DOMAIN order : i # j => order[i] # order[j]
      /\ \A i, j \in DOMAIN order :
           i < j => table[order[i]].started_at.time >= table[order[j]].started_at.time }

limitIgnoringOffset(order, limit, off) ==
  [i \in 1..Min(limit, Len(order)) |-> order[i]]

\* LIMIT limit OFFSET off
limitOffset(order, limit, off) ==
  [i \in 1..(Min(off + limit, Len(order)) - Min(off, Len(order))) |-> order[off + i]]

\* an item of listRuns: { ...run, id: row.id, startedAt, completedAt }
runItem(table, key) ==
  LET run == table[key].data
      revived(m) == IF Truthy(Get(run, m)) THEN newDate(Get(run, m).text) ELSE undefined
  IN JObj([m \in DOMAIN run.fields \cup {"id", "startedAt", "completedAt"} |->
             CASE m = "id" -> JStr(key[1])
               [] m \in {"startedAt", "completedAt"} -> revived(m)
               [] OTHER -> run.fields[m]])

listRuns ==
  /\ \E limit \in {1, 2, 10}, off \in {0, 1, 2}, orgId \in OrgIds :
       \E configId \in {undefined, JStr("config1"), JStr("config2")} :
         LET keys == matchingRuns(runs, configId, orgKey(orgId))
             total == integerOf(ToString(Cardinality(keys)))
         IN \E order \in orderByStartedAtDesc(runs, keys) :
              LET rows == limitOffset(order, integerOf(ToString(limit)),
                                      integerOf(ToString(off)))
              IN lastCall' = [op |-> "listRuns", limit |-> limit, off |-> off,
                              configId |-> configId, orgId |-> orgId,
                              items |-> [i \in DOMAIN rows |-> runItem(runs, rows[i])],
                              total |-> total]
  /\ UNCHANGED <<endpoint, payload, credentials, driverVars, execVars, poolVars, runLog, configurations,
                 runs, integrations, written>>

createRun ==
  /\ \E run \in RunResults \cup {null}, orgId \in OrgIds :
       LET key == <<Get(run, "id").text, orgKey(orgId)>>
       IN IF ~Truthy(run)
          THEN /\ lastCall' = [op |-> "createRun returned early", run |-> run,
                               orgId |-> orgId]
               /\ UNCHANGED <<runs, written>>
          ELSE /\ runs' =
                    onConflictDoUpdate(runs, key,
                      [config_id |-> IF key \in DOMAIN runs THEN runs[key].config_id
                                     ELSE sqlParam(Get(Get(run, "config"), "id")),
                       data |-> toJSONB(run),
                       started_at |-> sqlParam(Get(run, "startedAt")),
                       completed_at |-> sqlParam(Get(run, "completedAt"))])
               /\ written' = [k \in DOMAIN written \cup {<<key[1], "run", key[2]>>} |->
                                IF k = <<key[1], "run", key[2]>> THEN run ELSE written[k]]
               /\ lastCall' = [op |-> "createRun", run |-> run, orgId |-> orgId]
  /\ UNCHANGED <<endpoint, payload, credentials, driverVars, execVars, poolVars, runLog, configurations,
                 integrations>>

deleteRun ==
  /\ \E id \in {"", "run1", "run2", "run3"}, orgId \in OrgIds :
       LET key == <<id, orgKey(orgId)>>
           call == [op |-> "deleteRun", id |-> id, orgId |-> orgId, deleted |-> FALSE]
       IN IF id = ""
          THEN /\ lastCall' = call
               /\ UNCHANGED <<runs, written>>
          ELSE /\ runs' = deleteRow(runs, key)
               /\ written' = [k \in DOMAIN written \ {<<id, "run", key[2]>>} |-> written[k]]
               /\ lastCall' = [call EXCEPT !.deleted = key \in DOMAIN runs]
  /\ UNCHANGED <<endpoint, payload, credentials, driverVars, execVars, poolVars, runLog, configurations,
                 integrations>>

NextRuns == createRun \/ deleteRun \/ listRuns

SpecRuns == InitStore /\ [][NextRuns]_vars

\* getRun
getRun ==
  /\ \E id \in {"", "run1", "run2", "run3"}, orgId \in OrgIds :
       LET key == <<id, orgKey(orgId)>>
           run == parseDates(runs[key].data)
       IN lastCall' =
            [op |-> "getRun", id |-> id, orgId |-> orgId,
             result |-> IF id # "" /\ key \in DOMAIN runs
                        THEN JObj([k \in DOMAIN run.fields \cup {"id"} |->
                                     IF k = "id" THEN JStr(id) ELSE run.fields[k]])
                        ELSE null]
  /\ UNCHANGED <<endpoint, payload, credentials, driverVars, execVars, poolVars, runLog, configurations,
                 runs, integrations, written>>

(***************************************************************************)
(* Table integrations, the methods that read many rows, and clearAll.      *)
(***************************************************************************)

\* credentialEncryption.encrypt: every value becomes its ciphertext
encrypt(cr) ==
  JObj([k \in DOMAIN cr.fields |-> JStr("enc:" \o cr.fields[k].text)])

\* credentialEncryption.decrypt: every ciphertext becomes the value it was
\* made from
decrypt(cr) ==
  JObj([k \in DOMAIN cr.fields |->
          LET plain == {p \in {"sk_live_1", "sk_live_2", "refresh_1"} :
                          "enc:" \o p = cr.fields[k].text}
          IN IF plain = {} THEN cr.fields[k] ELSE JStr(CHOOSE p \in plain : TRUE)])

\* the integrations handed to upsertIntegration under `id`
Integrations(id) ==
  { JObj([id |-> JStr(id), urlHost |-> JStr("https://api.test.com"),
          credentials |-> JObj([api_key |-> JStr("sk_live_1")]),
          createdAt |-> Date(1)]),
    JObj([id |-> JStr(id), urlHost |-> JStr("https://api.test.com"),
          credentials |-> JObj([api_key |-> JStr("sk_live_2"),
                                refresh_token |-> JStr("refresh_1")])]),
    JObj([id |-> JStr(id), urlHost |-> JStr("https://open.test.com")]) }

integrationInPlaintext(integration) == integration

\* integrationToStore of upsertIntegration: a copy with its credentials encrypted
integrationToStore(integration) ==
  IF Truthy(Get(integration, "credentials"))
  THEN JObj([k \in DOMAIN integration.fields |->
               IF k = "credentials" THEN encrypt(integration.fields[k])
               ELSE integration.fields[k]])
  ELSE integration

\* what the methods make of a row read from integrations: { ...data, id } with
\* the credentials decrypted
integrationOfRow(data, id) ==
  JObj([k \in DOMAIN data.fields \cup {"id"} |->
          CASE k = "id" -> id
            [] k = "credentials" /\ Truthy(data.fields[k]) -> decrypt(data.fields[k])
            [] OTHER -> data.fields[k]])

\* the rows of a query without ORDER BY, or ordered by created_at, which the
\* model does not keep: the rows in any order
inAnyOrder(keys) ==
  { order \in [1..Cardinality(keys) -> keys] :
      \A i, j \in DOMAIN order : i # j => order[i] # order[j] }

upsertIntegration ==
  /\ \E id \in {"", "int1", "int2"}, orgId \in OrgIds :
       \E integration \in Integrations(id) \cup {null} :
         LET key == <<id, orgKey(orgId)>>
             call == [op |-> "upsertIntegration", id |-> id, orgId |-> orgId,
                      integration |-> integration]
         IN IF id = "" \/ ~Truthy(integration)
            THEN /\ lastCall' = [call EXCEPT !.op = "upsertIntegration returned early"]
                 /\ UNCHANGED <<integrations, written>>
            ELSE /\ integrations' =
                      onConflictDoUpdate(integrations, key,
                        [data |-> toJSONB(integrationToStore(integration))])
                 /\ written' = [k \in DOMAIN written \cup {<<id, "integration", key[2]>>} |->
                                  IF k = <<id, "integration", key[2]>> THEN integration
                                  ELSE written[k]]
                 /\ lastCall' = call
  /\ UNCHANGED <<endpoint, payload, credentials, driverVars, execVars, poolVars, runLog, configurations, runs>>

getIntegration ==
  /\ \E id \in {"", "int1", "int2"}, orgId \in OrgIds :
       LET key == <<id, orgKey(orgId)>>
       IN lastCall' =
            [op |-> "getIntegration", id |-> id, orgId |-> orgId,
             result |-> IF id # "" /\ key \in DOMAIN integrations
                        THEN integrationOfRow(parseDates(integrations[key].data), JStr(id))
                        ELSE null]
  /\ UNCHANGED <<endpoint, payload, credentials, driverVars, execVars, poolVars, runLog, configurations,
                 runs, integrations, written>>

deleteIntegration ==
  /\ \E id \in {"", "int1", "int2"}, orgId \in OrgIds :
       LET key == <<id, orgKey(orgId)>>
           call == [op |-> "deleteIntegration", id |-> id, orgId |-> orgId,
                    deleted |-> FALSE]
       IN IF id = ""
          THEN /\ lastCall' = call
               /\ UNCHANGED <<integrations, written>>
          ELSE /\ integrations' = deleteRow(integrations, key)
               /\ written' = [k \in DOMAIN written \ {<<id, "integration", key[2]>>} |->
                                written[k]]
               /\ lastCall' = [call EXCEPT !.deleted = key \in DOMAIN integrations]
  /\ UNCHANGED <<endpoint, payload, credentials, driverVars, execVars, poolVars, runLog, configurations, runs>>

listIntegrations ==
  /\ \E limit \in {1, 10}, off \in {0, 1}, orgId \in OrgIds :
       LET keys == {k \in DOMAIN integrations : k[2] = orgKey(orgId)}
       IN \E order \in inAnyOrder(keys) :
            LET rows == limitOffset(order, limit, off)
            IN lastCall' =
                 [op |-> "listIntegrations", limit |-> limit, off |-> off, orgId |-> orgId,
                  items |-> [i \in DOMAIN rows |->
                               integrationOfRow(parseDates(integrations[rows[i]].data),
                                                JStr(rows[i][1]))],
                  total |-> integerOf(ToString(Cardinality(keys)))]
  /\ UNCHANGED <<endpoint, payload, credentials, driverVars, execVars, poolVars, runLog, configurations,
                 runs, integrations, written>>

\* listApiConfigs, listExtractConfigs, listTransformConfigs, listWorkflows
listConfigs ==
  /\ \E type \in ConfigTypes, limit \in {1, 10}, off \in {0, 1}, orgId \in OrgIds :
       LET keys == {k \in DOMAIN configurations : k[2] = type /\ k[3] = orgKey(orgId)}
       IN \E order \in inAnyOrder(keys) :
            LET rows == limitOffset(order, limit, off)
                data(i) == parseDates(configurations[rows[i]].data)
            IN lastCall' =
                 [op |-> "listConfigs", type |-> type, limit |-> limit, off |-> off,
                  orgId |-> orgId,
                  items |-> [i \in DOMAIN rows |->
                               JObj([k \in DOMAIN data(i).fields \cup {"id"} |->
                                       IF k = "id" THEN JStr(rows[i][1])
                                       ELSE data(i).fields[k]])],
                  total |-> integerOf(ToString(Cardinality(keys)))]
  /\ UNCHANGED <<endpoint, payload, credentials, driverVars, execVars, poolVars, runLog, configurations,
                 runs, integrations, written>>

\* SELECT data FROM configurations WHERE id = ANY($1) ...: the rows read hold
\* the column data only, so row.id is undefined
getManyWorkflows ==
  /\ \E ids \in {{"a"}, {"a", "missing-id"}, {"missing-id"}}, orgId \in OrgIds :
       LET keys == {k \in DOMAIN configurations :
                      k[1] \in ids /\ k[2] = "workflow" /\ k[3] = orgKey(orgId)}
       IN \E rows \in inAnyOrder(keys) :
            lastCall' =
              [op |-> "getManyWorkflows", ids |-> ids, orgId |-> orgId,
               result |-> [i \in DOMAIN rows |->
                             LET data == configurations[rows[i]].data
                             IN JObj([k \in DOMAIN data.fields \cup {"id"} |->
                                        IF k = "id" THEN undefined ELSE data.fields[k]])]]
  /\ UNCHANGED <<endpoint, payload, credentials, driverVars, execVars, poolVars, runLog, configurations,
                 runs, integrations, written>>

\* SELECT data FROM integrations WHERE id = ANY($1) ...: row.id is undefined
\* here as well
getManyIntegrations ==
  /\ \E ids \in {{"int1"}, {"int1", "int2", "missing-id"}, {"missing-id"}},
        orgId \in OrgIds :
       LET keys == {k \in DOMAIN integrations : k[1] \in ids /\ k[2] = orgKey(orgId)}
       IN \E rows \in inAnyOrder(keys) :
            lastCall' =
              [op |-> "getManyIntegrations", ids |-> ids, orgId |-> orgId,
               result |-> [i \in DOMAIN rows |->
                             integrationOfRow(integrations[rows[i]].data, undefined)]]
  /\ UNCHANGED <<endpoint, payload, credentials, driverVars, execVars, poolVars, runLog, configurations,
                 runs, integrations, written>>

clearAll ==
  /\ \E orgId \in OrgIds :
       /\ runs' = [k \in {r \in DOMAIN runs : r[2] # orgKey(orgId)} |-> runs[k]]
       /\ configurations' = [k \in {c \in DOMAIN configurations : c[3] # orgKey(orgId)} |->
                               configurations[k]]
       /\ integrations' = [k \in {i \in DOMAIN integrations : i[2] # orgKey(orgId)} |->
                             integrations[k]]
       /\ written' = [k \in {w \in DOMAIN written : w[3] # orgKey(orgId)} |-> written[k]]
       /\ lastCall' = [op |-> "clearAll", orgId |-> orgId]
  /\ UNCHANGED <<endpoint, payload, credentials, driverVars, execVars, poolVars, runLog>>

\* the caller has taken the result of the call
returned ==
  /\ lastCall.op # "none"
  /\ lastCall' = [op |-> "none"]
  /\ UNCHANGED <<endpoint, payload, credentials, driverVars, execVars, poolVars, runLog, configurations,
                 runs, integrations, written>>

\* the whole store, serving one call at a time, holding MaxRows rows at most
NextStore ==
  \/ /\ lastCall.op = "none"
     /\ \/ NextConfigs \/ listConfigs \/ getManyWorkflows
        \/ NextRuns \/ getRun
        \/ upsertIntegration \/ getIntegration \/ deleteIntegration
        \/ listIntegrations \/ getManyIntegrations
        \/ clearAll
     /\ Cardinality(DOMAIN configurations') + Cardinality(DOMAIN runs')
          + Cardinality(DOMAIN integrations') <= MaxRows
  \/ returned

SpecStore == InitStore /\ [][NextStore]_vars

(***************************************************************************)
(* The run log of the file backend (FileStore): one JSON document per      *)
(* line, appended by createRun; a line that is no JSON has no `json`.      *)
(***************************************************************************)

\* lines the model appends to the log
MaxLog == 3

\* the lines of the tests: runs as createRun logs them, and damaged lines
LogLines ==
  LET Line(id, configId, t) ==
        [json |-> JObj([id |-> JStr(id), orgId |-> JStr("test-org"),
                        config |-> JObj([id |-> JStr(configId)]),
                        startedAt |-> JStr(toISOString(Date(t)))])]
      Damaged(f) == [json |-> JObj(f)]
  IN { Line("valid-run", "test-api-id", 1), Line("run3", "config1", 2),
       Damaged([id |-> JStr("corrupted-run-1"), orgId |-> JStr("test-org"),
                config |-> null, startedAt |-> null]),
       Damaged([id |-> JStr("corrupted-run-2"), orgId |-> JStr("test-org"),
                config |-> JObj([id |-> JStr("config1")]), startedAt |-> null]),
       Damaged([id |-> JStr("corrupted-run-3"), orgId |-> JStr("test-org"),
                config |-> null, startedAt |-> JStr(toISOString(Date(1)))]),
       [text |-> "invalid json line"],
       Damaged([id |-> JStr("corrupted-run-4"), orgId |-> JStr("test-org"),
                config |-> JObj([id |-> JStr("config1")]),
                startedAt |-> JStr("not-a-date")]),
       Damaged([orgId |-> JStr("test-org"), config |-> JObj([id |-> JStr("config1")]),
                startedAt |-> JStr(toISOString(Date(3)))]),
       Damaged([id |-> JStr("run-no-config-id"), orgId |-> JStr("test-org"),
                config |-> JObj([instruction |-> JStr("Test API")]),
                startedAt |-> JStr(toISOString(Date(3)))]) }

\* fs.promises.appendFile(logsPath, line): a line is written once
appendFile ==
  /\ Len(runLog) < MaxLog
  /\ \E line \in LogLines :
       /\ \A i \in DOMAIN runLog : runLog[i] # line
       /\ runLog' = Append(runLog, line)
       /\ lastCall' = [op |-> "appendFile"]
  /\ UNCHANGED <<endpoint, payload, credentials, driverVars, execVars, poolVars,
                 configurations, runs, integrations, written>>

\* FileStore.listRuns: the lines that parse and hold an id, a startedAt that
\* is a date and a config.id, of that organisation and config, newest first
fileListRuns ==
  /\ \E limit \in {1, 10}, off \in {0, 1}, configId \in {undefined, JStr("config1")} :
       LET orgId == JStr("test-org")
           valid(i) ==
             /\ "json" \in DOMAIN runLog[i]
             /\ Truthy(Get(runLog[i].json, "id"))
             /\ Truthy(Get(runLog[i].json, "startedAt"))
             /\ newDate(Get(runLog[i].json, "startedAt").text).time # 0
             /\ Truthy(Get(Get(runLog[i].json, "config"), "id"))
           keys == {i \in DOMAIN runLog :
                      /\ valid(i)
                      /\ Get(runLog[i].json, "orgId") = orgId
                      /\ Truthy(configId)
                           => Get(Get(runLog[i].json, "config"), "id") = configId}
           started(i) == newDate(Get(runLog[i].json, "startedAt").text).time
       IN \E order \in {o \in inAnyOrder(keys) :
                          \A i, j \in DOMAIN o : i < j => started(o[i]) >= started(o[j])} :
            LET rows == limitOffset(order, limit, off)
            IN lastCall' = [op |-> "listRuns", limit |-> limit, off |-> off,
                            configId |-> configId, orgId |-> orgId,
                            items |-> [i \in DOMAIN rows |-> runLog[rows[i]].json],
                            total |-> Cardinality(keys)]
  /\ UNCHANGED <<endpoint, payload, credentials, driverVars, execVars, poolVars,
                 configurations, runs, integrations, runLog, written>>

NextFile == appendFile \/ fileListRuns

SpecFile == InitStore /\ [][NextFile]_vars

(***************************************************************************)
(* OAuth of an integration: the token URL and the expiry of the token.     *)
(***************************************************************************)

\* the characters of a string
characters(text) ==
  CASE text = "stripe" ->
           <<"s", "t", "r", "i", "p", "e">>
    [] text = "shopify" ->
           <<"s", "h", "o", "p", "i", "f", "y">>
    [] text = "github" ->
           <<"g", "i", "t", "h", "u", "b">>
    [] text = "square" ->
           <<"s", "q", "u", "a", "r", "e">>
    [] text = "squarespace" ->
           <<"s", "q", "u", "a", "r", "e", "s", "p", "a", "c", "e">>
    [] text = "https://api.github.com" ->
           <<"h", "t", "t", "p", "s", ":", "/", "/", "a", "p", "i", ".",
             "g", "i", "t", "h", "u", "b", ".", "c", "o", "m">>
    [] text = "https://stripe-merch.myshopify.com" ->
           <<"h", "t", "t", "p", "s", ":", "/", "/", "s", "t", "r", "i",
             "p", "e", "-", "m", "e", "r", "c", "h", ".", "m", "y", "s",
             "h", "o", "p", "i", "f", "y", ".", "c", "o", "m">>
    [] text = "https://api.squarespace.com" ->
           <<"h", "t", "t", "p", "s", ":", "/", "/", "a", "p", "i", ".",
             "s", "q", "u", "a", "r", "e", "s", "p", "a", "c", "e", ".",
             "c", "o", "m">>
    [] text = "https://api.unknown.com" ->
           <<"h", "t", "t", "p", "s", ":", "/", "/", "a", "p", "i", ".",
             "u", "n", "k", "n", "o", "w", "n", ".", "c", "o", "m">>

\* String.prototype.includes
includes(text, searchString) ==
  \E i \in 1..(Len(characters(text)) - Len(characters(searchString)) + 1) :
    SubSeq(characters(text), i, i + Len(characters(searchString)) - 1)
      = characters(searchString)

\* the templates of the record `integrations` (some of them), in its order
knownIntegrations ==
  << [key |-> "stripe", oauth |-> undefined],
     [key |-> "shopify",
      oauth |-> JObj([tokenUrl |-> JStr("https://{shop}.myshopify.com/admin/oauth/access_token")])],
     [key |-> "github",
      oauth |-> JObj([tokenUrl |-> JStr("https://github.com/login/oauth/access_token")])],
     [key |-> "square",
      oauth |-> JObj([tokenUrl |-> JStr("https://connect.squareup.com/oauth2/token")])],
     [key |-> "squarespace",
      oauth |-> JObj([tokenUrl |->
                        JStr("https://login.squarespace.com/api/1/login/oauth/provider/tokens")])] >>

\* getOAuthTokenUrl(integration): credentials.token_url, else the tokenUrl of
\* the first template whose key is the id or occurs in urlHost, else the default
getOAuthTokenUrl ==
  /\ \E id \in {"github", "my-github", "shopify", "squarespace", "unknown", "custom"},
        urlHost \in {"https://api.github.com", "https://stripe-merch.myshopify.com",
                     "https://api.squarespace.com", "https://api.unknown.com"},
        cr \in {JObj(NoRows), JObj([token_url |-> JStr("https://custom.com/oauth/token")])} :
       LET found == {i \in DOMAIN knownIntegrations :
                       \/ id = knownIntegrations[i].key
                       \/ includes(urlHost, knownIntegrations[i].key)}
           first == CHOOSE i \in found : \A j \in found : i <= j
           url == IF Truthy(Get(cr, "token_url")) THEN Get(cr, "token_url")
                  ELSE IF found # {}
                          /\ Truthy(Get(knownIntegrations[first].oauth, "tokenUrl"))
                       THEN Get(knownIntegrations[first].oauth, "tokenUrl")
                  ELSE JStr(urlHost \o "/oauth/token")
       IN lastCall' = [op |-> "getOAuthTokenUrl", id |-> id, urlHost |-> urlHost,
                       credentials |-> cr, result |-> url]
  /\ UNCHANGED <<endpoint, payload, credentials, driverVars, execVars, poolVars, runLog, configurations,
                 runs, integrations, written>>

\* minutes on the clock of the expiry check
MaxMinutes == 12

\* a check that forgets the five minutes of margin
isTokenExpiredWithoutBuffer(integration, now) ==
  /\ Truthy(Get(Get(integration, "credentials"), "expires_at"))
  /\ Get(Get(integration, "credentials"), "expires_at").time < now

\* isTokenExpired(integration) at time `now`, times in minutes
isTokenExpired(integration, now) ==
  /\ Truthy(Get(Get(integration, "credentials"), "expires_at"))
  /\ Get(Get(integration, "credentials"), "expires_at").time < now + 5

\* isTokenExpired is asked about an integration
expiryChecked ==
  /\ \E now \in 0..(MaxMinutes \div 2),
        cr \in {JObj([access_token |-> JStr("test-token")])}
                 \cup {JObj([access_token |-> JStr("test-token"), expires_at |-> Date(t)]) :
                         t \in 0..MaxMinutes} :
       LET integration == JObj([id |-> JStr("test"), urlHost |-> JStr("https://api.test.com"),
                                credentials |-> cr])
       IN lastCall' = [op |-> "isTokenExpired", integration |-> integration, now |-> now,
                       expired |-> isTokenExpired(integration, now)]
  /\ UNCHANGED <<endpoint, payload, credentials, driverVars, execVars, poolVars, runLog, configurations,
                 runs, integrations, written>>

NextOAuth == getOAuthTokenUrl \/ expiryChecked

SpecOAuth == InitStore /\ [][NextOAuth]_vars

(***************************************************************************)
(* The connection pool of PostgresService.  The constructor starts         *)
(* initializeTables without awaiting it; the caller awaits one operation   *)
(* at a time.  A step runs one of them up to its next await.               *)
(***************************************************************************)

\* operations the caller awaits on one service
MaxCalls == 2

\* operations by their shape: the queries they send, whether a catch block
\* swallows the error, and whether release() stands in a finally block
Operations ==
  { [name |-> "getConfig", queries |-> 1, catches |-> FALSE, finally |-> TRUE],
    [name |-> "listRuns", queries |-> 2, catches |-> FALSE, finally |-> TRUE],
    [name |-> "createRun", queries |-> 1, catches |-> FALSE, finally |-> TRUE],
    [name |-> "clearAll", queries |-> 3, catches |-> FALSE, finally |-> TRUE],
    [name |-> "setTenantInfo", queries |-> 1, catches |-> TRUE, finally |-> TRUE],
    [name |-> "ping", queries |-> 1, catches |-> TRUE, finally |-> FALSE] }

\* new PostgresService(config) has returned: initializeTables waits for its
\* connection
InitPool ==
  /\ endpoint = testConfig
  /\ payload = NoVariables
  /\ credentials = NoFields
  /\ server = "script"
  /\ DriverStart
  /\ ExecIdle
  /\ configurations = NoRows /\ runs = NoRows /\ integrations = NoRows
  /\ runLog = <<>> /\ written = NoRows
  /\ lastCall = [op |-> "none"]
  /\ checkedOut = 0
  /\ initPc = "connecting"
  /\ statements = 0
  /\ operation = [name |-> "none"]
  /\ completed = 0

\* initializeTables up to its next await: pool.connect(), then the four
\* CREATE TABLE and five CREATE INDEX statements, then release() in finally
initializeTables ==
  /\ \E resolved \in BOOLEAN :
       CASE initPc = "connecting" ->
              /\ initPc' = IF resolved THEN "creating" ELSE "failed"
              /\ checkedOut' = IF resolved THEN checkedOut + 1 ELSE checkedOut
              /\ UNCHANGED statements
         [] initPc = "creating" /\ statements < 9 ->
              /\ initPc' = IF resolved THEN "creating" ELSE "failed"
              /\ statements' = IF resolved THEN statements + 1 ELSE statements
              /\ checkedOut' = IF resolved THEN checkedOut ELSE checkedOut - 1
         [] initPc = "creating" /\ statements = 9 ->
              /\ resolved
              /\ initPc' = "done"
              /\ checkedOut' = checkedOut - 1
              /\ UNCHANGED statements
         [] OTHER -> FALSE
  /\ UNCHANGED <<endpoint, payload, credentials, driverVars, execVars, runLog, configurations,
                 runs, integrations, written, lastCall, operation, completed>>

\* the caller calls an operation: it runs up to `await this.pool.connect()`
\* and on, until it awaits its first query; a rejected connect ends it
connect ==
  /\ operation.name = "none"
  /\ completed < MaxCalls
  /\ \E op \in Operations, resolved \in BOOLEAN :
       IF resolved
       THEN /\ operation' = [name |-> op.name, op |-> op, queried |-> 0]
            /\ checkedOut' = checkedOut + 1
            /\ UNCHANGED <<completed, lastCall>>
       ELSE /\ lastCall' = [op |-> op.name,
                            outcome |-> IF op.name = "ping" THEN "returned false"
                                        ELSE "threw"]
            /\ completed' = completed + 1
            /\ UNCHANGED <<operation, checkedOut>>
  /\ UNCHANGED <<endpoint, payload, credentials, driverVars, execVars, runLog, configurations,
                 runs, integrations, written, initPc, statements>>

\* the query the operation awaits resolves or rejects; after its last query,
\* or at a rejection, the operation runs to its end
query ==
  /\ operation.name # "none"
  /\ \E resolved \in BOOLEAN :
       LET op == operation.op
           last == operation.queried + 1 = op.queries
       IN IF resolved /\ ~last
          THEN /\ operation' = [operation EXCEPT !.queried = @ + 1]
               /\ UNCHANGED <<checkedOut, completed, lastCall>>
          ELSE /\ operation' = [name |-> "none"]
               /\ completed' = completed + 1
               /\ checkedOut' = IF resolved \/ op.finally THEN checkedOut - 1
                                ELSE checkedOut
               /\ lastCall' = [op |-> op.name,
                               outcome |-> IF resolved THEN "returned"
                                           ELSE IF op.name = "ping" THEN "returned false"
                                           ELSE IF op.catches THEN "returned"
                                           ELSE "threw"]
  /\ UNCHANGED <<endpoint, payload, credentials, driverVars, execVars, runLog, configurations,
                 runs, integrations, written, initPc, statements>>

NextPool == initializeTables \/ connect \/ query

SpecPool == InitPool /\ [][NextPool]_vars

(***************************************************************************)
(* Properties of the datastore.                                            *)
(***************************************************************************)

\* a value without its createdAt and updatedAt members and without the
\* members that hold undefined, at every depth
RECURSIVE WithoutTimestamps(_)
WithoutTimestamps(v) ==
  CASE v.kind = "object" ->
         JObj([k \in {m \in DOMAIN v.fields \ {"createdAt", "updatedAt"} :
                        v.fields[m].kind # "undefined"} |->
                 WithoutTimestamps(v.fields[k])])
    [] v.kind = "array" -> JArr([i \in DOMAIN v.items |-> WithoutTimestamps(v.items[i])])
    [] OTHER -> v

KeyOfLastCall == <<lastCall.id, lastCall.type, orgKey(lastCall.orgId)>>

\* C19: a get of (id, type, orgId) that follows an upsert of a config under
\* (id, type, orgId), with no delete and no other upsert of that key in
\* between, returns a value equal to that config, timestamps excluded
\* (equal as the tests compare: a member holding undefined counts as absent);
\* the config of a later upsert replaces the earlier one.
C19_GetReturnsUpserted ==
  lastCall.op = "getConfig" /\ KeyOfLastCall \in DOMAIN written
    => WithoutTimestamps(lastCall.result) = WithoutTimestamps(written[KeyOfLastCall])

\* a workflow with a step is read back for an organisation while the table
\* holds a second config
C19_Witness ==
  /\ lastCall.op = "getConfig"
  /\ KeyOfLastCall \in DOMAIN written
  /\ lastCall.type = "workflow"
  /\ Truthy(lastCall.orgId)
  /\ Len(written[KeyOfLastCall].fields["steps"].items) = 1
  /\ lastCall.result.kind = "object"
  /\ Cardinality(DOMAIN configurations) = 2


\* the runs of organisation `org` that belong to config `configId`, or all
\* its runs when no config is asked for
RunsOf(org, configId) ==
  { k \in DOMAIN runs :
      k[2] = org /\ (Truthy(configId) => Get(Get(runs[k].data, "config"), "id") = configId) }

StartedAt(k) == newDate(runs[k].data.fields["startedAt"].text).time

EntityKey(call) ==
  <<call.id,
    CASE call.op \in {"getConfig", "deleteConfig"} -> call.type
      [] call.op \in {"getRun", "deleteRun"} -> "run"
      [] OTHER -> "integration",
    orgKey(call.orgId)>>

Gets == {"getConfig", "getRun", "getIntegration"}
Deletes == {"deleteConfig", "deleteRun", "deleteIntegration"}

\* C21: a get of a config, run or integration returns null exactly when no
\* entity of that id is stored under that organisation (and type), that is
\* when the id was never upserted there or was deleted after its last upsert;
\* a delete reports true exactly when the entity was stored before it, and
\* the entity is not stored after it.
C21_NullIffNotStored ==
  [][ /\ lastCall'.op \in Gets
        => (lastCall'.result = null) = (EntityKey(lastCall') \notin DOMAIN written')
      /\ lastCall'.op \in Deletes
        => /\ lastCall'.deleted = (EntityKey(lastCall') \in DOMAIN written)
           /\ EntityKey(lastCall') \notin DOMAIN written' ]_vars

\* a delete removed an integration of one organisation while the other
\* organisation keeps an integration of the same id
C21_Witness ==
  /\ lastCall.op = "deleteIntegration"
  /\ lastCall.deleted
  /\ ~Truthy(lastCall.orgId)
  /\ <<lastCall.id, "org1">> \in DOMAIN integrations


\* C22: getManyWorkflows(ids, orgId) and getManyIntegrations(ids, orgId)
\* return one entry for each entity stored under that organisation whose id
\* is in ids and no other entry; every entry is an entity that carries its
\* own id, and the ids that are not stored leave no entry.
C22_GetManyReturnsStored ==
  lastCall.op \in {"getManyWorkflows", "getManyIntegrations"} =>
    LET kind == IF lastCall.op = "getManyWorkflows" THEN "workflow" ELSE "integration"
        org == orgKey(lastCall.orgId)
        stored == {k \in DOMAIN written :
                     k[1] \in lastCall.ids /\ k[2] = kind /\ k[3] = org}
        entries == lastCall.result
    IN /\ Len(entries) = Cardinality(stored)
       /\ \A i \in DOMAIN entries :
            /\ entries[i].kind = "object"
            /\ Get(entries[i], "id").kind = "string"
            /\ <<Get(entries[i], "id").text, kind, org>> \in stored
       /\ \A i, j \in DOMAIN entries :
            i # j => Get(entries[i], "id") # Get(entries[j], "id")


\* an entity as it is compared: without its id, its timestamps and the
\* members that hold undefined
Entity(v) ==
  WithoutTimestamps(JObj([k \in DOMAIN v.fields \ {"id"} |-> v.fields[k]]))

\* the entities a call returned
ReturnedEntities(call) ==
  CASE call.op \in Gets -> IF call.result = null THEN {} ELSE {call.result}
    [] call.op \in {"getManyWorkflows", "getManyIntegrations"} ->
         {call.result[i] : i \in DOMAIN call.result}
    [] call.op \in {"listConfigs", "listRuns", "listIntegrations"} ->
         {call.items[i] : i \in DOMAIN call.items}
    [] OTHER -> {}

\* C23: a call issued with orgId B leaves every row of every other
\* organisation as it was, in tables configurations, runs and integrations
\* (it neither overwrites nor removes it), and every entity it returns is an
\* entity stored under B.
C23_OrgScoped ==
  [][ lastCall'.op # "none" =>
        LET B == IF Truthy(lastCall'.orgId) THEN lastCall'.orgId.text ELSE ""
        IN /\ \A k \in DOMAIN configurations :
                k[3] # B => k \in DOMAIN configurations'
                            /\ configurations'[k] = configurations[k]
           /\ \A k \in DOMAIN runs :
                k[2] # B => k \in DOMAIN runs' /\ runs'[k] = runs[k]
           /\ \A k \in DOMAIN integrations :
                k[2] # B => k \in DOMAIN integrations'
                            /\ integrations'[k] = integrations[k]
           /\ \A e \in ReturnedEntities(lastCall') :
                \E k \in DOMAIN written' :
                  k[3] = B /\ Entity(e) = Entity(written'[k]) ]_vars

\* clearAll of one organisation has run and the integration and the run of
\* the other organisation are still stored
C23_Witness ==
  /\ lastCall.op = "clearAll"
  /\ Truthy(lastCall.orgId)
  /\ \E k \in DOMAIN integrations : k[2] = ""
  /\ \E k \in DOMAIN runs : k[2] = ""


\* C24: a configuration is identified by (id, type, orgId).  An upsert
\* leaves exactly one configuration under its key, the one handed in, and a
\* delete none; neither changes a configuration of another key, the same id
\* under another type included; a list of one type and organisation returns
\* every id once, and as many configurations as were upserted under distinct
\* ids and not deleted.
C24_UniqueWithinOrgAndType ==
  [][ LET org == IF Truthy(lastCall'.orgId) THEN lastCall'.orgId.text ELSE ""
          K == <<lastCall'.id, lastCall'.type, org>>
      IN /\ lastCall'.op \in {"upsertConfig", "deleteConfig"}
           => /\ \A k \in DOMAIN configurations \ {K} :
                   k \in DOMAIN configurations' /\ configurations'[k] = configurations[k]
              /\ DOMAIN configurations' \subseteq DOMAIN configurations \cup {K}
              /\ lastCall'.op = "deleteConfig" => K \notin DOMAIN configurations'
              /\ lastCall'.op = "upsertConfig"
                   => /\ K \in DOMAIN configurations'
                      /\ WithoutTimestamps(configurations'[K].data)
                           = WithoutTimestamps(lastCall'.config)
         /\ lastCall'.op = "listConfigs"
           => /\ \A i, j \in DOMAIN lastCall'.items :
                   i # j => Get(lastCall'.items[i], "id") # Get(lastCall'.items[j], "id")
              /\ lastCall'.total
                   = Cardinality({k \in DOMAIN written' :
                                    k[2] = lastCall'.type /\ k[3] = org}) ]_vars

\* an upsert replaced a configuration while the same id is stored under
\* another type
C24_Witness ==
  /\ lastCall.op = "upsertConfig"
  /\ lastCall.type = "api"
  /\ lastCall.config.fields["instruction"] = JStr("Updated API")
  /\ <<lastCall.id, "workflow", orgKey(lastCall.orgId)>> \in DOMAIN configurations
  /\ configurations[<<lastCall.id, "workflow", orgKey(lastCall.orgId)>>].data
         .fields["instruction"] = JStr("Test workflow")


\* the credential values handed to upsertIntegration and not deleted since
StoredPlaintexts ==
  UNION { {Get(written[k], "credentials").fields[n] :
             n \in DOMAIN Get(written[k], "credentials").fields} :
          k \in {w \in DOMAIN written :
                   w[2] = "integration" /\ Truthy(Get(written[w], "credentials"))} }

ValidLogEntries ==
  {i \in DOMAIN runLog :
     /\ "json" \in DOMAIN runLog[i]
     /\ Get(runLog[i].json, "id").kind = "string"
     /\ \E t \in Times : Get(runLog[i].json, "startedAt") = JStr(toISOString(Date(t)))
     /\ Get(runLog[i].json, "config").kind = "object"
     /\ Get(Get(runLog[i].json, "config"), "id").kind = "string"}

\* C26: listRuns of the file backend leaves every damaged log entry (no
\* JSON, no id, no valid startedAt, no config.id) out of items and out of
\* total, and still lists every valid run: total counts exactly the valid
\* runs that match the filter, every item is one of them, and a window
\* that starts at 0 and is wide enough holds them all.
C26_DamagedLogTolerated ==
  (lastCall.op = "listRuns" /\ "total" \in DOMAIN lastCall) =>
    LET matching == {i \in ValidLogEntries :
                       Truthy(lastCall.configId) =>
                         Get(Get(runLog[i].json, "config"), "id") = lastCall.configId}
        listed == {lastCall.items[n] : n \in DOMAIN lastCall.items}
    IN /\ lastCall.total = Cardinality(matching)
       /\ listed \subseteq {runLog[i].json : i \in matching}
       /\ Len(lastCall.items) = Cardinality(listed)
       /\ (lastCall.off = 0 /\ lastCall.limit >= Cardinality(matching))
            => listed = {runLog[i].json : i \in matching}

\* a log of one valid run, a line that is no JSON and a run without a valid
\* startedAt has been listed: one item, total 1
C26_Witness ==
  /\ lastCall.op = "listRuns"
  /\ Len(runLog) = 3
  /\ \E i \in DOMAIN runLog : "text" \in DOMAIN runLog[i]
  /\ \E i \in DOMAIN runLog :
       /\ "json" \in DOMAIN runLog[i]
       /\ Get(runLog[i].json, "startedAt") = JStr("not-a-date")
  /\ Len(lastCall.items) = 1
  /\ Get(lastCall.items[1], "id") = JStr("valid-run")
  /\ lastCall.total = 1

\* the templates whose key is the id of the call or occurs in its urlHost
MatchedTemplates ==
  {i \in DOMAIN knownIntegrations :
     \/ lastCall.id = knownIntegrations[i].key
     \/ includes(lastCall.urlHost, knownIntegrations[i].key)}

\* C27: getOAuthTokenUrl resolves by strict priority: credentials.token_url
\* when set; otherwise the tokenUrl of a template matched by the id or by
\* urlHost, when a matched template has one; otherwise urlHost/oauth/token.
C27_TokenUrlPriority ==
  lastCall.op = "getOAuthTokenUrl" =>
    LET tokenUrls == {Get(knownIntegrations[i].oauth, "tokenUrl") : i \in MatchedTemplates}
                       \ {undefined}
    IN IF Truthy(Get(lastCall.credentials, "token_url"))
       THEN lastCall.result = Get(lastCall.credentials, "token_url")
       ELSE IF tokenUrls # {}
       THEN lastCall.result \in tokenUrls
       ELSE lastCall.result = JStr(lastCall.urlHost \o "/oauth/token")

\* C28: isTokenExpired is true when expires_at is less than 5 minutes after
\* now (already past included), false when it is more than 5 minutes after
\* now, and false when expires_at is missing.
C28_ExpiredWithinFiveMinutes ==
  lastCall.op = "isTokenExpired" =>
    LET expires_at == Get(Get(lastCall.integration, "credentials"), "expires_at")
    IN /\ expires_at = undefined => ~lastCall.expired
       /\ (expires_at # undefined /\ expires_at.time < lastCall.now + 5) => lastCall.expired
       /\ (expires_at # undefined /\ expires_at.time > lastCall.now + 5) => ~lastCall.expired

\* a token that expires 4 minutes from now is reported expired
C28_Witness ==
  /\ lastCall.op = "isTokenExpired"
  /\ Get(Get(lastCall.integration, "credentials"), "expires_at") = Date(lastCall.now + 4)
  /\ lastCall.now > 0
  /\ lastCall.expired

(***************************************************************************)
(* Properties of the errors of executeApiCall.                             *)
(***************************************************************************)

\* C29: after every failed attempt of the self-healing loop that a repair
\* call follows, the first attempt included, the LLM session ends with a
\* user-role message describing the error of that attempt, so that the
\* repair call sees it.
C29_EveryErrorReachesTheSession ==
  (/\ isSelfHealingEnabled(options)
   /\ execPc = "attempt"
   /\ caught # null
   /\ ~success)
    => /\ Len(messages) > 0
       /\ messages[Len(messages)] =
            [role |-> "user",
             content |-> Prefixed("There was an error with the configuration, please fix: ",
                                  caught.message)]

\* C30: when executeApiCall ends without success it throws an ApiCallError
\* whose message carries the error message of the last attempt made, with
\* the values of the credentials masked.
C30_ThrowsLastError ==
  execPc = "threw" =>
    /\ execResult.name = "ApiCallError"
    /\ execResult.message.text =
         "API call failed after " \o ToString(retryCount) \o " retries. Last error: "
           \o caught.message.text
    /\ execResult.message.contains =
         caught.message.contains \ {JSString(credentials[n]) : n \in DOMAIN credentials}

\* a run has thrown after a first attempt without data and a last attempt
\* that failed with status 401, its message naming the credential
C30_Witness ==
  /\ execPc = "threw"
  /\ retryCount >= 2
  /\ \E i \in DOMAIN calls :
       /\ calls[i].op = "callEndpoint"
       /\ calls[i].retryCount = 0
       /\ calls[i].outcome = "no data"
  /\ caught.name = "ApiCallError"
  /\ caught.statusCode = 401
  /\ "abc" \in caught.message.contains
  /\ "abc" \notin execResult.message.contains

(***************************************************************************)
(* Further properties of the pagination driver.                            *)
(***************************************************************************)
\* the data the k-th response yields is empty: an empty array, an object
\* without members, or nothing
EmptyPage(k) ==
  \/ IsArray(ExtractedPage(k)) /\ Len(ExtractedPage(k).items) = 0
  \/ ~IsArray(ExtractedPage(k)) /\ ~Truthy(ExtractedPage(k))
  \/ ExtractedPage(k).kind = "object" /\ DOMAIN ExtractedPage(k).fields = {}

\* C31: with a stopCondition, when the first and the second request both
\* return empty data (the stop condition did not stop pagination after the
\* first), the call fails at the second request with the stop condition
\* error and sends no third request.
C31_SecondEmptyPageFails ==
  ( /\ hasStopCondition(endpoint)
    /\ Len(responses) >= 2
    /\ Usable(1) /\ Usable(2)
    /\ EmptyPage(1) /\ EmptyPage(2) )
  => ( /\ pc = "threw"
       /\ Len(requests) = 2 /\ Len(responses) = 2
       /\ result = Error("Stop condition error") )

\* an empty array and then an empty body have been answered, and the call
\* has failed with the stop condition error
C31_Witness ==
  /\ hasStopCondition(endpoint)
  /\ pc = "threw"
  /\ Len(responses) = 2
  /\ responses[1] = Response(200, PageEmpty)
  /\ responses[2] = Response(204, null)
  /\ result.message = "Stop condition error"

\* C32: applying dataPath never fails: whatever the body of a response that
\* passed the status and HTML checks, the call does not end with the error
\* of the walk over the segments.
C32_DataPathNeverFails ==
  ~( /\ pc = "threw"
     /\ result.name = "TypeError"
     /\ dataPathOf(endpoint) # <<>>
     /\ ~isErrorResponse(lastResponse)
     /\ ~isHtmlResponse(lastResponse) )

(***************************************************************************)
(* Further properties of the datastore.                                    *)
(***************************************************************************)
\* C33: runs with the same startedAt are listed in one fixed order: a
\* listRuns call that follows a listRuns call with the same arguments, over
\* the same stored runs, returns the same sequence of items.
C33_ListRunsDeterministic ==
  [][ ( /\ lastCall.op = "listRuns"
        /\ lastCall'.op = "listRuns"
        /\ runs' = runs
        /\ lastCall'.limit = lastCall.limit
        /\ lastCall'.off = lastCall.off
        /\ lastCall'.configId = lastCall.configId
        /\ lastCall'.orgId = lastCall.orgId )
      => lastCall'.items = lastCall.items ]_vars

\* C34: runs are append-only: a stored run is removed only by deleteRun or
\* clearAll, and no createRun alters it, except to finalize it (the run
\* keeps its start and its config).
C34_RunsAppendOnly ==
  [][ \A key \in DOMAIN runs :
        \/ key \in DOMAIN runs' /\ runs'[key] = runs[key]
        \/ lastCall'.op \in {"deleteRun", "clearAll"}
        \/ /\ lastCall'.op = "createRun"
           /\ key \in DOMAIN runs'
           /\ runs'[key].started_at = runs[key].started_at
           /\ Get(runs'[key].data, "config") = Get(runs[key].data, "config") ]_vars

(***************************************************************************)
(* Properties of the connection pool.                                      *)
(***************************************************************************)
\* C35: every operation releases the connection it acquired when it
\* returns, on success and on failure: the connections checked out are
\* those of initializeTables and of the operation in progress, and none
\* when both are over.
C35_ConnectionsReleased ==
  checkedOut = (IF initPc = "creating" THEN 1 ELSE 0)
               + (IF operation.name # "none" THEN 1 ELSE 0)

\* C40: no operation executes a query before initializeTables has finished
\* creating the tables and indexes: whenever a query of an operation
\* resolves or rejects, initializeTables is done.
C40_InitializedBeforeUse ==
  [][ (operation.name # "none" /\ operation' # operation) => initPc = "done" ]_vars

(***************************************************************************)
(* Further properties of executeApiCall.                                   *)
(***************************************************************************)
\* C36: the statusCode of the ApiCallError executeApiCall throws is the
\* status of the last failed attempt: the status of the ApiCallError caught
\* last, or 500 when another error was caught last.
C36_StatusOfLastAttempt ==
  execPc = "threw" =>
    execResult.statusCode =
      IF caught.name = "ApiCallError" THEN caught.statusCode ELSE 500

\* C37: when self-healing of requests is off (DISABLED or TRANSFORM_ONLY),
\* executeApiCall calls neither generateApiConfig nor evaluateResponse,
\* every attempt uses the endpoint handed in, and the endpoint returned on
\* success is the endpoint handed in.
C37_NoLlmWithoutHealing ==
  (execPc # "idle" /\ options.selfHealing \in {"DISABLED", "TRANSFORM_ONLY"}) =>
    LET input == [testConfig EXCEPT
                    !.headers = ContentTypeJson @@ ("X-Api-Key" :> <<Var("token")>>)]
    IN /\ \A i \in DOMAIN calls : calls[i].op = "callEndpoint"
       /\ messages = <<>> \/ \A i \in DOMAIN messages : messages[i].role = "user"
       /\ endpoint = input
       /\ execPc = "returned" => execResult.endpoint = input

\* with TRANSFORM_ONLY a run has succeeded at its third attempt
C37_Witness ==
  /\ options.selfHealing = "TRANSFORM_ONLY"
  /\ execPc = "returned"
  /\ retryCount = 2
  /\ Len(calls) = 3

(***************************************************************************)
(* Requests of an endpoint that does not paginate.                         *)
(***************************************************************************)
\* C38: an endpoint without pagination, or with pagination type DISABLED,
\* and without stopCondition sends exactly one HTTP request: never a second
\* one, and one when the call has returned.
C38_OneRequestWithoutPagination ==
  (paginationType(endpoint) \in {"NONE", "DISABLED"} /\ ~hasStopCondition(endpoint)) =>
    /\ Len(requests) <= 1
    /\ pc = "done" => Len(requests) = 1

(***************************************************************************)
(* The conversation of the repair loop.                                    *)
(***************************************************************************)
\* C39: the conversation of every LLM invocation of the repair loop begins
\* with the system prompt followed by the initial user prompt, also after a
\* repair attempt that failed while the prompt was assembled: a conversation
\* that the next repair attempt hands to the LLM as it is (it is not empty)
\* has these two messages first.
C39_ConversationBeginsWithPrompts ==
  ( /\ execPc = "attempt"
    /\ retryCount > 0
    /\ options.selfHealing \in {"ENABLED", "REQUEST_ONLY"}
    /\ messages # <<>> ) =>
      /\ Len(messages) >= 2
      /\ messages[1] = [role |-> "system", content |-> Msg("SELF_HEALING_API_AGENT_PROMPT", {})]
      /\ messages[2] = [role |-> "user", content |-> Msg("Generate API configuration", {})]

====
